---- MODULE Spec2Model ----
(***************************************************************************)
(* Log tailing and rotation engine of ops_toolkit_gui.                     *)
(*                                                                         *)
(*   LogRotateService.rotate_if_needed / _cleanup_old_archives             *)
(*       services/log_rotate_service.py                                    *)
(*   LogAnalyzerCollector.collect / configure / _keyword_hits              *)
(*       collectors/log_analyzer_collector.py                              *)
(*                                                                         *)
(* The file system is the live log path (missing, a directory or a regular *)
(* file holding a sequence of one-byte characters) and the directory       *)
(* ops_toolkit_archives next to it.  Offsets are byte positions.  A        *)
(* collect() call is a sequence of steps, one for each call it makes to    *)
(* the file system, to the clock or to the shared offset; the writer of    *)
(* the log and the other calls act between them.                           *)
(***************************************************************************)
EXTENDS Integers, Sequences, FiniteSets, TLC

(***************************************************************************)
(* Bounds of the model.                                                    *)
(***************************************************************************)
MaxWritten == 6     \* bytes written to the log path in one behaviour
MaxRot == 3         \* rotations that write an archive in one behaviour
MaxTime == 2        \* wall clock seconds 0..MaxTime
MaxFaults == 1      \* injected filesystem failures in one behaviour
MaxLineLen == 2     \* max_line_length given to the collector
LinesPerPoll == 2   \* max_lines_per_poll given to the collector
MaxReq == 2         \* refresh_logs calls (request ids) in one behaviour
MaxApply == 1       \* Apply clicks in one behaviour
MaxOther == 4       \* workers of the other pages in one behaviour
PoolThreads == 2    \* threads of the pool that runs the workers
BigBytes == 99      \* a rotate_max_bytes no modelled file reaches

NL == "\n"
Ellipsis == "..."   \* the one character appended to a truncated line
Nul == "NUL"        \* a zero byte

\* Bodies of the lines the writer appends (without the terminator).
LineBodies == { <<>>, <<"E">>, <<"x", "x", "x">> }
\* Bodies of the lines of the runs with external tools.
ShortBodies == { <<>>, <<"E">> }
\* Lines with a keyword the writer appends in the runs with one line body.
MaxEntries == MaxWritten \div 3
\* Beginnings of lines the writer flushes before the line is complete.
Fragments == { <<"x">> }
\* Contents an external tool puts in place of the live file.
Replacements == { <<>>, <<"E", NL>> }
\* Keyword lists given to the collector.
KeywordLists == { <<<<"e">>>> }
\* keyword lists and line bodies of the runs that exercise keyword counting
HitKeywordLists ==
    { << <<"e">>, <<"x">> >>,            \* two keywords
      << <<"x">>, <<"x">> >>,            \* one keyword given twice
      << <<" ">>, <<"E", " ">> >> }      \* a blank entry, a padded keyword
HitBodies == { <<"x">>, <<"E">>, <<"e", "E">> }
MaxBytesChoices == { 2, BigBytes }
KeepChoices == { 0, 1, 2 }

VARIABLES
    live,       \* the log path: [kind, data]
    archives,   \* files in ops_toolkit_archives: set of
                \*   [ts, gz, data, size, whole, zeros, mtime, born]
    archdir,    \* ops_toolkit_archives exists
    now,        \* latest reading of the wall clock by a rotation, in seconds
    mstamp,     \* modification stamp of the file system, one for each time an
                \* archive is created, truncated or written
    cfg,        \* collector configuration (keywords, rotator policy, caps)
    pos,        \* LogAnalyzerCollector._pos
    last,       \* the collect() call of the direct caller: in progress, or the
                \* latest one until the outside world moves on
    hist,       \* history since construction:
                \*   [quiet, whole, appended, delivered, prev_off, own]
    nfaults,    \* number of failures injected so far
    written,    \* number of bytes written to the log path so far
    nrot,       \* number of rotations that passed the size test so far
    log_req_id, \* MainWindow._log_req_id
    workers,    \* the collect() calls: the Worker of each request id, or the
                \* call in progress of a direct caller: [phase, coll, cfg, ..., res]
    opos,       \* _pos of the collectors that Apply replaced, oldest first
    events,     \* signals queued for the GUI thread: sequence of [sig, w]
    active,     \* MainWindow._active_workers (names of the workers)
    shown,      \* snapshots handed to LogPage.set_data: sequence of [req, lines]
    applied,    \* first request id not issued before the latest Apply, 0: none
    others,     \* the Workers of the other pages: sequence of [kind, phase, todo]
    queue       \* workers waiting for a thread of the pool, oldest first

gui == <<log_req_id, workers, opos, events, active, shown, applied, others, queue>>

vars == <<live, archives, archdir, now, mstamp, cfg, pos, last, hist, nfaults, written,
          nrot, log_req_id, workers, opos, events, active, shown, applied, others, queue>>

NoPath == [ts |-> -1, gz |-> FALSE]

(***************************************************************************)
(* Sequences.                                                              *)
(***************************************************************************)
Min(a, b) == IF a < b THEN a ELSE b

Take(s, n) == SubSeq(s, 1, Min(n, Len(s)))

Drop(s, n) == SubSeq(s, n + 1, Len(s))

(***************************************************************************)
(* Text: str.rstrip("\n"), str.strip(), re.IGNORECASE literal search.      *)
(***************************************************************************)
RECURSIVE RStripNL(_)
RStripNL(s) ==
    IF s # <<>> /\ s[Len(s)] = NL THEN RStripNL(SubSeq(s, 1, Len(s) - 1)) ELSE s

IsSpace(c) == c \in {" ", NL}

RECURSIVE LStrip(_)
LStrip(s) == IF s # <<>> /\ IsSpace(Head(s)) THEN LStrip(Tail(s)) ELSE s

RECURSIVE RStrip(_)
RStrip(s) ==
    IF s # <<>> /\ IsSpace(s[Len(s)]) THEN RStrip(SubSeq(s, 1, Len(s) - 1)) ELSE s

Strip(s) == RStrip(LStrip(s))

LowerChar(c) == IF c = "E" THEN "e" ELSE c

Lower(s) == [i \in 1..Len(s) |-> LowerChar(s[i])]

\* Variant: the search distinguishes upper and lower case.
SearchCaseSensitive(k, line) ==
    \E i \in 0..(Len(line) - Len(k)) : SubSeq(line, i + 1, i + Len(k)) = k

\* rx.search(line) for rx = re.compile(re.escape(k), re.IGNORECASE)
Search(k, line) ==
    \E i \in 0..(Len(line) - Len(k)) :
        Lower(SubSeq(line, i + 1, i + Len(k))) = Lower(k)

(***************************************************************************)
(* LogAnalyzerCollector._keyword_hits.  The Counter is an insertion        *)
(* ordered dict: a sequence of [keyword, count], a key entering at its     *)
(* first increment.                                                        *)
(***************************************************************************)
\* pats: the stripped, non-empty keywords, in configuration order
RECURSIVE Pats(_)
Pats(keywords) ==
    IF keywords = <<>> THEN <<>>
    ELSE LET k == Strip(Head(keywords))
         IN  IF k = <<>> THEN Pats(Tail(keywords))
             ELSE <<k>> \o Pats(Tail(keywords))

\* c[k] += 1
CounterInc(c, k) ==
    IF \E i \in 1..Len(c) : c[i].keyword = k
    THEN [i \in 1..Len(c) |->
             IF c[i].keyword = k THEN [c[i] EXCEPT !.count = @ + 1] ELSE c[i]]
    ELSE Append(c, [keyword |-> k, count |-> 1])

\* for k, rx in pats: if rx.search(line): c[k] += 1
RECURSIVE ScanLine(_, _, _)
ScanLine(c, line, pats) ==
    IF pats = <<>> THEN c
    ELSE ScanLine(IF Search(Head(pats), line) THEN CounterInc(c, Head(pats)) ELSE c,
                  line, Tail(pats))

\* for line in lines: ...
RECURSIVE ScanLines(_, _, _)
ScanLines(c, lines, pats) ==
    IF lines = <<>> THEN c
    ELSE ScanLines(ScanLine(c, Head(lines), pats), Tail(lines), pats)

_keyword_hits(lines, keywords) ==
    IF keywords = <<>> THEN <<>> ELSE ScanLines(<<>>, lines, Pats(keywords))

\* sum(hits.values())
RECURSIVE SumCounts(_)
SumCounts(c) == IF c = <<>> THEN 0 ELSE Head(c).count + SumCounts(Tail(c))

\* hit_list.sort(key=lambda x: x.count, reverse=True): stable, descending
RECURSIVE InsertHit(_, _)
InsertHit(sorted, h) ==
    IF sorted = <<>> THEN <<h>>
    ELSE IF Head(sorted).count >= h.count
         THEN <<Head(sorted)>> \o InsertHit(Tail(sorted), h)
         ELSE <<h>> \o sorted

RECURSIVE SortHits(_, _)
SortHits(sorted, rest) ==
    IF rest = <<>> THEN sorted
    ELSE SortHits(InsertHit(sorted, Head(rest)), Tail(rest))

(***************************************************************************)
(* The read loop of collect: up to max_lines_per_poll readline() calls on  *)
(* a buffered text file.  A readline() is answered from the buffer while   *)
(* the buffer holds a complete line; otherwise the file is read again.     *)
(***************************************************************************)
\* end of the text f.readline() returns at byte position p: just past the
\* next terminator, or the end of the file when no terminator follows
\* Variant: the whole rest of the file is taken as one line.
LineEndOfFile(data, p) == Len(data)

LineEnd(data, p) ==
    IF \E i \in (p + 1)..Len(data) : data[i] = NL
    THEN CHOOSE i \in (p + 1)..Len(data) :
             /\ data[i] = NL
             /\ \A j \in (p + 1)..(i - 1) : data[j] # NL
    ELSE Len(data)

\* line.rstrip("\n"), then line[:max_line_length] + ellipsis when too long
CutLine(raw, max_line_length) ==
    LET line == RStripNL(raw)
    IN  IF Len(line) > max_line_length
        THEN SubSeq(line, 1, max_line_length) \o <<Ellipsis>>
        ELSE line

\* the readline() calls the buffer answers: while a terminator is buffered
\* after position p and fewer than n lines were taken
RECURSIVE ReadLoop(_, _, _, _, _)
ReadLoop(buf, p, n, max_line_length, acc) ==
    IF n <= 0 \/ \A i \in (p + 1)..Len(buf) : buf[i] # NL
    THEN [lines |-> acc, pos |-> p]
    ELSE LET e == LineEnd(buf, p)
         IN  ReadLoop(buf, e, n - 1, max_line_length,
                      Append(acc, CutLine(SubSeq(buf, p + 1, e), max_line_length)))

\* Variant: the loop is not capped by max_lines_per_poll.
ReadLinesUncapped(buf, n, max_line_length) ==
    ReadLoop(buf, 0, Len(buf) + 1, max_line_length, <<>>)

\* n: the readline() calls left of max_lines_per_poll
ReadLines(buf, n, max_line_length) == ReadLoop(buf, 0, n, max_line_length, <<>>)

(***************************************************************************)
(* Files of ops_toolkit_archives.  A file is named by the second of its    *)
(* rotation (the %Y%m%d-%H%M%S of the name) and by whether it carries the  *)
(* archive suffix; renaming onto a name replaces the file.  A file is      *)
(*   [ts, gz, data, size, whole, zeros, mtime, born]                       *)
(* data: the text it holds (of a compressed file: what decompressing it    *)
(* gives); size: its size in bytes; whole: it can be read back; zeros: the *)
(* zero bytes a compressed file ends with; mtime: its modification stamp;  *)
(* born: the stamp of its creation, which tells it from another file later *)
(* created under the same name.                                            *)
(***************************************************************************)
PathOf(f) == [ts |-> f.ts, gz |-> f.gz]

PutFile(ar, f) == {a \in ar : PathOf(a) # PathOf(f)} \cup {f}

DelFile(ar, path) == {a \in ar : PathOf(a) # path}

MissingFile == [kind |-> "none", data |-> <<>>]

EmptyFile == [kind |-> "file", data |-> <<>>]

\* the uncompressed file of second ts, holding data
PlainFile(ts, data) ==
    [ts |-> ts, gz |-> FALSE, data |-> data, size |-> Len(data), whole |-> TRUE,
     zeros |-> 0, mtime |-> 0, born |-> 0]

\* The content old of a file after a handle wrote chunk at its position off:
\* the bytes written replace the bytes at their place, the rest stays; a
\* write beyond the end leaves zero bytes in between.
Overlay(old, off, chunk) ==
    LET kept == IF Len(old) >= off THEN SubSeq(old, 1, off)
                ELSE old \o [i \in 1..(off - Len(old)) |-> Nul]
    IN  kept \o chunk \o Drop(old, off + Len(chunk))

\* The sizes the gzip stream of a text can have: a frame of 20 bytes and the
\* deflated text.  (The frame also holds the name of the archive, which adds
\* the same number of bytes to every archive of one log; sizes are counted
\* without it.)  Deflate stores a text of up to four bytes byte by byte; a
\* longer one can come out shorter, down to three bytes.
StreamSizes(data) ==
    IF Len(data) <= 4 THEN {20 + Len(data)}
    ELSE {20 + k : k \in 3..Len(data)}

\* The zero bytes a gzip stream ends with: the high bytes of the length of
\* the text, and for the empty text the whole trailer and the last byte of
\* the deflated text.
TrailingZeros(data) == IF data = <<>> THEN 9 ELSE 3

\* The file f after a handle opened with "wb" wrote, at its offset 0, a
\* stream of n bytes compressing data: a stream as long as the file or
\* longer replaces the content; a shorter one leaves the end of the old
\* content behind it.  gzip reads over zero bytes that follow a stream, so
\* the file still decompresses to data when what is left is zero bytes;
\* otherwise it cannot be decompressed any more.
Overwritten(f, data, n, stamp) ==
    IF n >= f.size
    THEN [f EXCEPT !.data = data, !.size = n, !.whole = TRUE,
                   !.zeros = TrailingZeros(data), !.mtime = stamp]
    ELSE IF f.size - n <= f.zeros
    THEN [f EXCEPT !.data = data, !.whole = TRUE,
                   !.zeros = (f.size - n) + TrailingZeros(data), !.mtime = stamp]
    ELSE [f EXCEPT !.data = <<>>, !.whole = FALSE, !.mtime = stamp]

\* The calls of one collect() that the model lets fail, named by the phase
\* of the call: the calls of rotate_if_needed and of the cleanup, and the
\* calls of collect itself.
RotateFaults == {"r_stat", "move", "touch", "r_open", "gzopen", "copy", "unlink",
                 "glob", "c_stat", "remove"}

ReadFaults == {"stat", "open", "reading", "tell"}

(***************************************************************************)
(* LogRotateService._cleanup_old_archives                                  *)
(***************************************************************************)
\* sorted(..., key=st_mtime, reverse=True) of the stat results, which are
\* in the order of the listing: the sort is stable, files of one mtime keep
\* the order in which they were listed
RECURSIVE SortedByMtime(_)
SortedByMtime(stats) ==
    IF stats = <<>> THEN <<>>
    ELSE LET i == CHOOSE k \in 1..Len(stats) :
                      /\ \A j \in 1..Len(stats) : stats[k].mtime >= stats[j].mtime
                      /\ \A j \in 1..(k - 1) : stats[j].mtime < stats[k].mtime
         IN  <<stats[i]>>
             \o SortedByMtime(SubSeq(stats, 1, i - 1)
                              \o SubSeq(stats, i + 1, Len(stats)))

Range(s) == {s[i] : i \in 1..Len(s)}

\* archive_dir.glob(base.*suffix): the listings the directory can give of
\* the compressed files named names (the seconds they carry).  The order of
\* a listing is that of the directory, which is any order.
Globbed(names) ==
    {s \in [1..Cardinality(names) -> names] :
        \A i, j \in 1..Cardinality(names) : s[i] = s[j] => i = j}

\* files[self.keep_archives:], as names
OldArchives(stats, keep_archives) ==
    LET sorted == SortedByMtime(stats)
        old == Drop(sorted, keep_archives)
    IN  [i \in 1..Len(old) |-> old[i].ts]

(***************************************************************************)
(* LogRotateService.rotate_if_needed: its results and tests.               *)
(***************************************************************************)
RotateResult(rotated, archived_path, message) ==
    [rotated |-> rotated, archived_path |-> archived_path, message |-> message]

NoResult == RotateResult(FALSE, NoPath, "")

\* p.exists()
PathExists(lv) == lv.kind # "none"

\* Variant: every path is taken for a regular file.
IsRegularFileAlways(lv) == TRUE

\* p.is_file()
IsRegularFile(lv) == lv.kind = "file"

\* Variant: a file of exactly max_bytes is not rotated.
NeedsRotationAbove(size, max_bytes) == size > max_bytes

\* size < self.max_bytes, negated
NeedsRotation(size, max_bytes) == size >= max_bytes

\* Variant: the failed compression reports the compressed path.
GzipFailedPacked(rotated_plain) ==
    RotateResult(TRUE, [rotated_plain EXCEPT !.gz = TRUE], "gzip failed")

\* the result of a compression that failed after the move
GzipFailed(rotated_plain) == RotateResult(TRUE, rotated_plain, "gzip failed")

(***************************************************************************)
(* LogAnalyzerCollector.collect: its tests and the fields of its snapshot. *)
(***************************************************************************)
Note(tag, path) == [tag |-> tag, path |-> path]

\* if rotate_res.rotated: self._pos = 0
ResetOnRotate(res, p) == IF res.rotated THEN 0 ELSE p

\* Variant: an offset at the end of the file is reset as well.
CheckOffsetAtEnd(p, size) == IF p >= size THEN 0 ELSE p

\* Variant: the offset is never reset.
CheckOffsetNever(p, size) == p

\* if self._pos > st.st_size: self._pos = 0
CheckOffset(p, size) == IF p > size THEN 0 ELSE p

\* Variant: every note is a warning as well.
WarningsWithNotes(hits, notes) ==
    (IF SumCounts(hits) > 0 THEN <<"Keyword hits">> ELSE <<>>)
    \o [i \in 1..Len(notes) |-> notes[i].tag]

\* if sum(hits.values()) > 0: warnings.append(...)
Warnings(hits, notes) == IF SumCounts(hits) > 0 THEN <<"Keyword hits">> ELSE <<>>

\* Variant: a failed read stores the position it had reached.
OffsetAfterFailedReadTell(p, tell) == tell

\* except Exception: self._pos = f.tell() was not reached, the offset stays
OffsetAfterFailedRead(p, tell) == p

(***************************************************************************)
(* LogAnalyzerCollector.configure.  An optional argument is the empty set  *)
(* (None) or the singleton of its value.  The model has one log path, so   *)
(* the path argument is always absent.                                     *)
(***************************************************************************)
\* The history once the run is no longer appends and polls only.
Disturbed ==
    [quiet |-> FALSE, whole |-> FALSE, appended |-> <<>>, delivered |-> <<>>,
     prev_off |-> -1, own |-> FALSE]

Absent == {}

ValueOf(opt) == CHOOSE v \in opt : TRUE

\* Variant: a rotator rebuilt for one argument takes the default for the other.
configureFreshRotator(c, keywords, rotate_max_bytes, rotate_keep_archives) ==
    LET c1 == IF keywords # Absent
              THEN [c EXCEPT !.keywords = ValueOf(keywords)] ELSE c
        c2 == IF rotate_max_bytes # Absent
              THEN [c1 EXCEPT !.max_bytes = ValueOf(rotate_max_bytes),
                              !.keep_archives = 1] ELSE c1
        c3 == IF rotate_keep_archives # Absent
              THEN [c2 EXCEPT !.keep_archives = ValueOf(rotate_keep_archives),
                              !.max_bytes = BigBytes] ELSE c2
    IN  [cfg |-> c3, pos |-> 0]

configure(c, keywords, rotate_max_bytes, rotate_keep_archives) ==
    LET c1 == IF keywords # Absent
              THEN [c EXCEPT !.keywords = ValueOf(keywords)] ELSE c
        c2 == IF rotate_max_bytes # Absent
              THEN [c1 EXCEPT !.max_bytes = ValueOf(rotate_max_bytes)] ELSE c1
        c3 == IF rotate_keep_archives # Absent
              THEN [c2 EXCEPT !.keep_archives = ValueOf(rotate_keep_archives)] ELSE c2
    IN  [cfg |-> c3, pos |-> 0]

(***************************************************************************)
(* State machine.  A collect() call is a worker: a record that holds the   *)
(* place of the call (the phase, named by the call it makes next) and its  *)
(* local variables.  The direct caller of a collector has at most one call *)
(* in progress; the main window has one for each worker of its pool.       *)
(***************************************************************************)
NoPrev ==
    [op |-> "none", alone |-> FALSE, fault |-> "none", raised |-> FALSE,
     new_lines |-> <<>>, read_from |-> -1, last_read_pos |-> -1,
     rotated |-> FALSE, moved |-> FALSE, notes |-> <<>>]

NoLast ==
    [op |-> "none", fault |-> "none", raised |-> FALSE, status |-> "",
     warning_count |-> 0, warnings |-> <<>>, last_read_pos |-> -1,
     new_lines |-> <<>>, keyword_hits |-> <<>>, notes |-> <<>>,
     rot |-> NoResult, checked |-> FALSE, moved |-> FALSE, read_from |-> -1,
     seek_own |-> FALSE, seek_size |-> -1,
     alone |-> FALSE,
     pre_kind |-> "none", pre_size |-> 0, pre_pos |-> 0, pre_data |-> <<>>,
     pre_own |-> FALSE,
     pre_archives |-> {}, pre_archdir |-> FALSE, pre_appended |-> 0,
     prev_off |-> -1, prev |-> NoPrev, call |-> <<>>]

NoRes == [kind |-> "none", lines |-> <<>>, last_read_pos |-> -1]

NoCfg ==
    [keywords |-> <<>>, max_bytes |-> 0, keep_archives |-> 0,
     max_lines_per_poll |-> 0, max_line_length |-> 0]

\* self._log_collector: the collectors are numbered in order of construction
Collector == Len(opos) + 1

\* a worker the pool has not run yet.  coll, cfg: the collector it uses and
\* that collector's settings; checked: rotate_if_needed was called; size:
\* st_size in collect; ts: the second of the archive name; src: the content
\* of the file f_in is open on, once that file has lost its name; got: the
\* bytes a copy has read so far; cut, readers: the file that the copy of
\* shutil.move writes has lost its name, and the workers whose f_in is open
\* on it; dst: the file f_out is open on (its born stamp); listed, stats:
\* the names _cleanup_old_archives still handles and the stat results it
\* has; rot: the RotateResult; notes; fault: the call that failed; moved:
\* it moved the live file; at: the offset it seeks to;
\* tell, buf, lines: the position after the last line returned, the bytes
\* read and not yet returned, the lines of the snapshot; held: the content
\* the file its handle is open on had when it left the path; on: the second
\* of the archive name that file has since the rename (-1: none, the file
\* is at the path or has no name, and held is its content); own, fits: at the seek, the offset had been returned by a read of
\* the file at the path, and the size of that file; gen: the number of
\* moves before it opened the file; seen: the workers that had left
\* collect() when it entered; todo: signals it still emits
NewWorker(phase) ==
    [phase |-> phase, coll |-> 0, cfg |-> NoCfg, checked |-> FALSE, size |-> -1,
     ts |-> -1, src |-> {}, got |-> <<>>, cut |-> FALSE, readers |-> {},
     dst |-> -1, listed |-> <<>>, stats |-> <<>>,
     rot |-> NoResult, notes |-> <<>>, fault |-> "none", moved |-> FALSE,
     at |-> -1, tell |-> -1, buf |-> <<>>, lines |-> <<>>, held |-> {},
     on |-> -1,
     own |-> FALSE, fits |-> -1, gen |-> -1, seen |-> {}, todo |-> <<>>,
     res |-> NoRes]

\* a worker of refresh_performance, refresh_activity or refresh_filesystem
NewOther(kind, phase) == [kind |-> kind, phase |-> phase, todo |-> <<>>]

OtherId(o) == 0 - o

\* phases of a worker inside collect(), named by the call it makes next
RotatePhases ==
    {"now", "mkdir", "move", "mv_open", "mv_create", "mv_copy", "mv_stat",
     "mv_utime", "mv_xattr", "mv_chmod", "mv_unlink", "touch", "r_open",
     "gzopen", "copy", "fill", "gzclose", "unlink", "glob", "c_stat", "remove",
     "reset"}

CollectPhases ==
    {"exists", "is_file", "r_exists", "r_is_file", "r_stat", "stat", "check",
     "zero", "open", "seek", "reading", "tell", "snapshot"}
    \cup RotatePhases

\* phases in which the handle of the read is open
HandlePhases == {"seek", "reading", "tell"}

\* phases in which the copy of shutil.move has the live file open
MovePhases == {"mv_create", "mv_copy"}

\* phases in which f_in is read
PackPhases == {"gzopen", "copy", "fill"}

\* The collector is used without a main window.
NoWindow ==
    /\ log_req_id = 0
    /\ workers = <<>>
    /\ opos = <<>>
    /\ events = <<>>
    /\ active = {}
    /\ shown = <<>>
    /\ applied = 0
    /\ others = <<>>
    /\ queue = <<>>

Configs ==
    [keywords : KeywordLists, max_bytes : MaxBytesChoices, keep_archives : KeepChoices,
     max_lines_per_poll : {LinesPerPoll}, max_line_length : {MaxLineLen}]

\* The collector configured with c has done nothing yet on the path lv;
\* ar: the archives an earlier run has left, the latest in second t.
Started(lv, c, ar, t) ==
    /\ live = lv
    /\ archives = ar
    /\ archdir = (ar # {})
    /\ now = t
    /\ mstamp = 0
    /\ nrot = 0
    /\ cfg = c
    /\ pos = 0
    /\ last = NoLast
    /\ hist = [quiet |-> TRUE, whole |-> TRUE, appended |-> <<>>, delivered |-> <<>>,
               prev_off |-> -1, own |-> FALSE]
    /\ nfaults = 0
    /\ written = Len(lv.data)

\* nothing was done yet on the path lv
Fresh(lv, c) == Started(lv, c, {}, 0)

Init ==
    /\ \E lv \in {MissingFile, EmptyFile, [kind |-> "dir", data |-> <<>>]},
          c \in Configs : Fresh(lv, c)
    /\ NoWindow

\* The handles open on the live file stay on it when it leaves the path:
\* to is the second of the archive name it is renamed to, -1 when it is
\* unlinked or replaced.
Detached(ws, lv, to) ==
    [v \in 1..Len(ws) |->
        IF ws[v].phase \in HandlePhases \cup MovePhases /\ ws[v].held = {}
        THEN [ws[v] EXCEPT !.held = {lv.data}, !.on = to]
        ELSE ws[v]]

\* the worker's handle of that kind is open on a file without a name: f_in
\* ("src"), the source of the copy of shutil.move ("mv"), the handle of the
\* read ("rd")
Holds(wk, kind) ==
    \/ kind = "src" /\ wk.phase \in PackPhases /\ wk.src # {}
    \/ kind = "mv" /\ wk.phase \in MovePhases /\ wk.held # {} /\ wk.on < 0
    \/ kind = "rd" /\ wk.phase \in HandlePhases /\ wk.held # {} /\ wk.on < 0

\* the handles open for reading on the uncompressed file named t: f_in of
\* the workers compressing it, and the handles opened on the live file
\* before it was renamed to t
PlainHandles(ws, t) ==
    {<<v, "src">> : v \in {x \in 1..Len(ws) : /\ ws[x].phase \in PackPhases
                                              /\ ws[x].ts = t
                                              /\ ws[x].src = {}}}
    \cup {<<v, "mv">> : v \in {x \in 1..Len(ws) : /\ ws[x].phase \in MovePhases
                                                  /\ ws[x].held # {}
                                                  /\ ws[x].on = t}}
    \cup {<<v, "rd">> : v \in {x \in 1..Len(ws) : /\ ws[x].phase \in HandlePhases
                                                  /\ ws[x].held # {}
                                                  /\ ws[x].on = t}}

\* The handles open on the uncompressed file named t in ar stay on it when
\* the name is taken from it (a file is renamed onto the name, or the name
\* is unlinked): the readers keep its content, the copy of shutil.move that
\* writes it keeps the handles that read what it writes.
Unlinked(ws, t, ar) ==
    LET old == {a \in ar : PathOf(a) = [ts |-> t, gz |-> FALSE]}
        hs == PlainHandles(ws, t)
    IN  IF old = {} THEN ws
        ELSE [v \in 1..Len(ws) |->
                 LET a == IF <<v, "src">> \in hs
                          THEN [ws[v] EXCEPT !.src = {ValueOf(old).data}]
                          ELSE IF <<v, "mv">> \in hs \/ <<v, "rd">> \in hs
                          THEN [ws[v] EXCEPT !.held = {ValueOf(old).data}, !.on = -1]
                          ELSE ws[v]
                 IN  IF a.phase = "mv_copy" /\ a.ts = t /\ ~a.cut
                     THEN [a EXCEPT !.cut = TRUE, !.readers = hs]
                     ELSE a]

\* the worker wk, numbered v, after chunk was written at position off of a
\* file without a name that the handles hs are open on
Written(wk, v, hs, off, chunk) ==
    IF <<v, "src">> \in hs /\ Holds(wk, "src")
    THEN [wk EXCEPT !.src = {Overlay(ValueOf(@), off, chunk)}]
    ELSE IF \/ <<v, "mv">> \in hs /\ Holds(wk, "mv")
            \/ <<v, "rd">> \in hs /\ Holds(wk, "rd")
    THEN [wk EXCEPT !.held = {Overlay(ValueOf(@), off, chunk)}]
    ELSE wk

\* the content of the file the worker's handle on the live file is open on
HeldText(me, lv, ar) ==
    IF me.held = {} THEN lv.data
    ELSE IF me.on >= 0
    THEN ValueOf({a \in ar : PathOf(a) = [ts |-> me.on, gz |-> FALSE]}).data
    ELSE ValueOf(me.held)

\* The outside world acts: a call in progress is no longer alone, a call
\* that returned is no longer the latest event.
Interfered ==
    IF last.op = "calling"
    THEN [NoLast EXCEPT !.op = "calling",
                        !.pre_archives = last.pre_archives,
                        !.pre_appended = last.pre_appended]
    ELSE NoLast

\* The writer appends text to the log, creating the file when it is missing.
Write(body, complete) ==
    LET text == IF complete THEN Append(body, NL) ELSE body
    IN  /\ live.kind \in {"file", "none"}
        /\ written + Len(text) <= MaxWritten
        /\ written' = written + Len(text)
        /\ live' = [kind |-> "file", data |-> live.data \o text]
        /\ hist' = [hist EXCEPT
                       !.whole = @ /\ complete,
                       !.appended = IF hist.quiet /\ hist.whole /\ complete
                                    THEN Append(@, body) ELSE <<>>,
                       \* a missing file is created: another file
                       !.own = @ /\ live.kind = "file"]
    /\ last' = Interfered
    /\ UNCHANGED <<archives, archdir, now, mstamp, nrot, cfg, pos, nfaults>>
    /\ UNCHANGED gui

AppendLine == \E body \in LineBodies : Write(body, TRUE)

\* The writer appends an empty line or a line with a keyword.
AppendShort == \E body \in ShortBodies : Write(body, TRUE)

\* The writer appends one line with a keyword (MaxEntries of them).
AppendEntry ==
    /\ written < 2 * MaxEntries
    /\ Write(<<"E">>, TRUE)

\* The writer appends a line of the runs that exercise keyword counting.
AppendHitLine == \E body \in HitBodies : Write(body, TRUE)

\* The writer flushes the beginning of a line (once in a behaviour).
AppendFragment ==
    /\ hist.whole
    /\ \E frag \in Fragments : Write(frag, FALSE)

\* An external tool truncates the live file (to nothing, the file stays the
\* same file) or puts another file in its place.
ReplaceFile ==
    /\ live.kind = "file"
    /\ \E d \in Replacements :
          /\ d # live.data
          /\ written + Len(d) <= MaxWritten
          /\ written' = written + Len(d)
          /\ live' = [kind |-> "file", data |-> d]
          /\ hist' = [Disturbed EXCEPT !.whole = hist.whole,
                                       !.own = hist.own /\ d = <<>>]
          /\ workers' = IF d = <<>> THEN workers ELSE Detached(workers, live, -1)
    /\ last' = Interfered
    /\ UNCHANGED <<archives, archdir, now, mstamp, nrot, cfg, pos, nfaults>>
    /\ UNCHANGED <<log_req_id, opos, events, active, shown, applied, others, queue>>

\* An external tool removes the live file.
RemoveFile ==
    /\ live.kind = "file"
    /\ live' = MissingFile
    /\ hist' = [Disturbed EXCEPT !.whole = hist.whole]
    /\ workers' = Detached(workers, live, -1)
    /\ last' = Interfered
    /\ UNCHANGED <<archives, archdir, now, mstamp, nrot, cfg, pos, nfaults, written>>
    /\ UNCHANGED <<log_req_id, opos, events, active, shown, applied, others, queue>>

\* configure calls <<keywords, rotate_max_bytes, rotate_keep_archives>>:
\* the keywords alone,
ConfigureCalls == {<<{k}, Absent, Absent>> : k \in KeywordLists}

\* and one argument of the rotation policy alone.
PolicyCalls ==
    {<<Absent, {b}, Absent>> : b \in MaxBytesChoices}
    \cup {<<Absent, Absent, {k}>> : k \in KeepChoices}

\* The direct caller calls configure between two collect() calls.
ConfigureWith(calls) ==
    /\ workers = <<>>
    /\ \E args \in calls :
        \E out \in {configure(cfg, args[1], args[2], args[3])} :
            /\ cfg' = out.cfg
            /\ pos' = out.pos
            /\ hist' = [Disturbed EXCEPT !.whole = hist.whole]
            /\ last' = [NoLast EXCEPT !.op = "configure", !.call = args]
            /\ UNCHANGED <<live, archives, archdir, now, mstamp, nrot, nfaults, written>>
            /\ UNCHANGED gui

Configure == ConfigureWith(ConfigureCalls)

Reconfigure == ConfigureWith(PolicyCalls)

files == <<live, archives, archdir, now, mstamp, nrot>>

\* what a step of worker w leaves alone besides the files, the offsets and
\* the history
window == <<cfg, last, written, log_req_id, events, active, shown, applied,
            queue, others>>

\* self._pos of collector g
PosOf(g) == IF g = Collector THEN pos ELSE opos[g]

\* self._pos = p in collector g
SetPos(g, p) ==
    IF g = Collector
    THEN pos' = p /\ UNCHANGED opos
    ELSE opos' = [opos EXCEPT ![g] = p] /\ UNCHANGED pos

\* what datetime.now() can give: the second of the latest reading or the next
Clock == now..Min(now + 1, MaxTime)

(***************************************************************************)
(* The steps of collect(), one for each call on the file system, the clock *)
(* or self._pos.                                                           *)
(***************************************************************************)
\* the not-found snapshot is built next
NotFound(me) ==
    [me EXCEPT !.phase = "snapshot",
               !.notes = <<Note("Log file not found", NoPath)>>]

\* rotate_if_needed returns without rotating
NotRotated(me, message) ==
    [me EXCEPT !.phase = "stat", !.ts = -1,
               !.rot = RotateResult(FALSE, NoPath, message)]

\* rotate_if_needed returns from its first except clause
MoveFailed(me) ==
    [NotRotated(me, "rotate move failed") EXCEPT
        !.held = {}, !.on = -1, !.got = <<>>, !.cut = FALSE, !.readers = {}]

\* rotate_if_needed returns from its second except clause
Unpacked(me) ==
    [me EXCEPT !.phase = "reset", !.src = {}, !.got = <<>>, !.dst = -1, !.ts = -1,
               !.rot = GzipFailed([ts |-> me.ts, gz |-> FALSE])]

\* _cleanup_old_archives has returned: rotate_if_needed returns "rotated"
CleanedUp(me) ==
    [me EXCEPT !.phase = "reset", !.listed = <<>>, !.stats = <<>>, !.ts = -1,
               !.rot = RotateResult(TRUE, [ts |-> me.ts, gz |-> TRUE], "rotated")]

\* the stat results are complete: the names beyond keep_archives are removed
Sorted(me, stats) ==
    LET old == OldArchives(stats, me.cfg.keep_archives)
    IN  IF old = <<>> THEN CleanedUp(me)
        ELSE [me EXCEPT !.phase = "remove", !.listed = old, !.stats = <<>>]

\* the except clause of the read: the lines read so far stay in the snapshot
ReadFailed(me) ==
    [me EXCEPT !.phase = "snapshot", !.buf = <<>>, !.held = {}, !.on = -1,
               !.notes = Append(@, Note("read failed", NoPath))]

\* collect: if not p.exists()
CollectExists(w) ==
    /\ workers[w].phase = "exists"
    /\ workers' = [workers EXCEPT ![w] =
                      IF PathExists(live) THEN [@ EXCEPT !.phase = "is_file"]
                      ELSE NotFound(@)]
    /\ UNCHANGED <<files, pos, opos, nfaults, hist, window>>

\* collect: or not p.is_file()
CollectIsFile(w) ==
    /\ workers[w].phase = "is_file"
    /\ workers' = [workers EXCEPT ![w] =
                      IF IsRegularFile(live)
                      THEN [@ EXCEPT !.phase = "r_exists", !.checked = TRUE]
                      ELSE NotFound(@)]
    /\ UNCHANGED <<files, pos, opos, nfaults, hist, window>>

\* rotate_if_needed: if not p.exists()
RotateExists(w) ==
    /\ workers[w].phase = "r_exists"
    /\ workers' = [workers EXCEPT ![w] =
                      IF PathExists(live) THEN [@ EXCEPT !.phase = "r_is_file"]
                      ELSE NotRotated(@, "log not found")]
    /\ UNCHANGED <<files, pos, opos, nfaults, hist, window>>

\* rotate_if_needed: or not p.is_file()
RotateIsFile(w) ==
    /\ workers[w].phase = "r_is_file"
    /\ workers' = [workers EXCEPT ![w] =
                      IF IsRegularFile(live) THEN [@ EXCEPT !.phase = "r_stat"]
                      ELSE NotRotated(@, "log not found")]
    /\ UNCHANGED <<files, pos, opos, nfaults, hist, window>>

\* rotate_if_needed: size = p.stat().st_size, which fails when the path is
\* gone, and the size test
RotateStat(w) ==
    /\ workers[w].phase = "r_stat"
    /\ IF ~PathExists(live)
       THEN /\ workers' = [workers EXCEPT ![w] = NotRotated(@, "stat failed")]
            /\ UNCHANGED nrot
       ELSE IF ~NeedsRotation(Len(live.data), workers[w].cfg.max_bytes)
       THEN /\ workers' = [workers EXCEPT ![w] = NotRotated(@, "no rotation")]
            /\ UNCHANGED nrot
       ELSE /\ nrot < MaxRot
            /\ nrot' = nrot + 1
            /\ workers' = [workers EXCEPT ![w].phase = "now"]
    /\ UNCHANGED <<live, archives, archdir, now, mstamp, pos, opos, nfaults, hist,
                   window>>

\* rotate_if_needed: ts = datetime.now(), the second of the archive name
RotateNow(w) ==
    /\ workers[w].phase = "now"
    /\ \E t \in Clock :
          /\ now' = t
          /\ workers' = [workers EXCEPT ![w].phase = "mkdir", ![w].ts = t]
    /\ UNCHANGED <<live, archives, archdir, mstamp, nrot, pos, opos, nfaults, hist,
                   window>>

\* rotate_if_needed: archive_dir.mkdir, outside every try block
RotateMkdir(w) ==
    /\ workers[w].phase = "mkdir"
    /\ archdir' = TRUE
    /\ workers' = [workers EXCEPT ![w].phase = "move"]
    /\ UNCHANGED <<live, archives, now, mstamp, nrot, pos, opos, nfaults, hist,
                   window>>

\* rotate_if_needed: shutil.move(p, rotated_plain) begins with
\* os.rename, which replaces a file of that name; the handles open on the
\* live file stay on the moved file.  When the path is gone the rename
\* fails, and shutil.move copies the file and unlinks it instead.
RotateMove(w) ==
    /\ workers[w].phase = "move"
    /\ IF ~PathExists(live)
       THEN /\ workers' = [workers EXCEPT ![w].phase = "mv_open"]
            /\ UNCHANGED <<live, archives, hist>>
       ELSE /\ archives' = PutFile(archives, PlainFile(workers[w].ts, live.data))
            /\ live' = MissingFile
            /\ hist' = [Disturbed EXCEPT !.whole = hist.whole]
            /\ workers' = [Detached(Unlinked(workers, workers[w].ts, archives),
                                    live, workers[w].ts)
                              EXCEPT ![w].phase = "touch", ![w].moved = TRUE]
    /\ UNCHANGED <<archdir, now, mstamp, nrot, pos, opos, nfaults, window>>

\* shutil.move, copy2, copyfile: open(src, "rb"), which fails when the path
\* is still gone.  (The lookups before it, islink, isdir and stat of both
\* paths, change nothing and do not fail.)
MoveOpen(w) ==
    /\ workers[w].phase = "mv_open"
    /\ workers' = [workers EXCEPT ![w] =
                      IF IsRegularFile(live) THEN [@ EXCEPT !.phase = "mv_create"]
                      ELSE MoveFailed(@)]
    /\ UNCHANGED <<files, pos, opos, nfaults, hist, window>>

\* copyfile: open(dst, "wb") creates the uncompressed file or truncates the
\* file of that name
MoveCreate(w) ==
    /\ workers[w].phase = "mv_create"
    /\ LET old == {a \in archives : PathOf(a) = [ts |-> workers[w].ts, gz |-> FALSE]}
       IN  archives' = PutFile(archives,
                               IF old = {} THEN PlainFile(workers[w].ts, <<>>)
                               ELSE [ValueOf(old) EXCEPT !.data = <<>>, !.size = 0])
    /\ workers' = [workers EXCEPT ![w].phase = "mv_copy"]
    /\ UNCHANGED <<live, archdir, now, mstamp, nrot, pos, opos, nfaults, hist,
                   window>>

\* copyfile: the next os.sendfile of the copy loop writes what the live
\* file holds beyond the bytes sent so far; a call that sends nothing ends
\* the loop, and both files are closed
MoveCopy(w) ==
    /\ workers[w].phase = "mv_copy"
    /\ LET me == workers[w]
           text == HeldText(me, live, archives)
           chunk == Drop(text, Len(me.got))
           old == {a \in archives : PathOf(a) = [ts |-> me.ts, gz |-> FALSE]}
           sent == [me EXCEPT !.got = @ \o chunk]
           done == [me EXCEPT !.phase = "mv_stat", !.got = <<>>, !.held = {},
                              !.on = -1,
                              !.cut = FALSE, !.readers = {}]
       IN  IF chunk = <<>>
           THEN /\ workers' = [workers EXCEPT ![w] = done]
                /\ UNCHANGED archives
           ELSE IF ~me.cut /\ old # {}
           THEN /\ archives' =
                       PutFile(archives,
                               [ValueOf(old) EXCEPT
                                   !.data = Overlay(@, Len(me.got), chunk),
                                   !.size = Len(Overlay(ValueOf(old).data,
                                                        Len(me.got), chunk))])
                /\ workers' = [workers EXCEPT ![w] = sent]
           ELSE /\ UNCHANGED archives
                /\ workers' =
                       [v \in 1..Len(workers) |->
                           LET wk == Written(workers[v], v, me.readers,
                                             Len(me.got), chunk)
                           IN  IF v = w THEN [wk EXCEPT !.got = @ \o chunk] ELSE wk]
    /\ UNCHANGED <<live, archdir, now, mstamp, nrot, pos, opos, nfaults, hist,
                   window>>

\* copy2: the calls of copystat, each by path: os.stat(src), os.utime(dst),
\* os.listxattr(src), os.chmod(dst); a path that is gone makes the call fail
CopystatCalls ==
    <<[phase |-> "mv_stat", src |-> TRUE], [phase |-> "mv_utime", src |-> FALSE],
      [phase |-> "mv_xattr", src |-> TRUE], [phase |-> "mv_chmod", src |-> FALSE],
      [phase |-> "mv_unlink", src |-> TRUE]>>

MoveStat(w) ==
    /\ \E i \in 1..4 :
          /\ workers[w].phase = CopystatCalls[i].phase
          /\ LET there == IF CopystatCalls[i].src THEN PathExists(live)
                          ELSE \E a \in archives :
                                  PathOf(a) = [ts |-> workers[w].ts, gz |-> FALSE]
             IN  workers' = [workers EXCEPT ![w] =
                                IF there
                                THEN [@ EXCEPT !.phase = CopystatCalls[i + 1].phase]
                                ELSE MoveFailed(@)]
    /\ UNCHANGED <<files, pos, opos, nfaults, hist, window>>

\* shutil.move: os.unlink(src) ends the move, and fails when the path is
\* gone; the handles open on the live file stay on it
MoveUnlink(w) ==
    /\ workers[w].phase = "mv_unlink"
    /\ IF ~IsRegularFile(live)
       THEN /\ workers' = [workers EXCEPT ![w] = MoveFailed(@)]
            /\ UNCHANGED <<live, hist>>
       ELSE /\ live' = MissingFile
            /\ hist' = [Disturbed EXCEPT !.whole = hist.whole]
            /\ workers' = [Detached(workers, live, -1) EXCEPT
                              ![w].phase = "touch", ![w].moved = TRUE]
    /\ UNCHANGED <<archives, archdir, now, mstamp, nrot, pos, opos, nfaults, window>>

\* rotate_if_needed: p.touch(exist_ok=True)
RotateTouch(w) ==
    /\ workers[w].phase = "touch"
    /\ live' = IF PathExists(live) THEN live ELSE EmptyFile
    /\ workers' = [workers EXCEPT ![w].phase = "r_open"]
    /\ UNCHANGED <<archives, archdir, now, mstamp, nrot, pos, opos, nfaults, hist,
                   window>>

\* rotate_if_needed: open(rotated_plain, "rb"), which fails when another
\* call has unlinked that file
RotateOpen(w) ==
    /\ workers[w].phase = "r_open"
    /\ LET plain == {a \in archives : PathOf(a) = [ts |-> workers[w].ts, gz |-> FALSE]}
       IN  workers' = [workers EXCEPT ![w] =
                          IF plain = {} THEN Unpacked(@)
                          ELSE [@ EXCEPT !.phase = "gzopen"]]
    /\ UNCHANGED <<files, pos, opos, nfaults, hist, window>>

\* rotate_if_needed: gzip.open(rotated_gz, "wb") creates the file or
\* truncates the file of that name; nothing is written before the close
RotateGzipOpen(w) ==
    /\ workers[w].phase = "gzopen"
    /\ LET path == [ts |-> workers[w].ts, gz |-> TRUE]
           old == {a \in archives : PathOf(a) = path}
           new == IF old = {}
                  THEN [ts |-> path.ts, gz |-> TRUE, data |-> <<>>, size |-> 0,
                        whole |-> TRUE, zeros |-> 0, mtime |-> mstamp + 1,
                        born |-> mstamp + 1]
                  ELSE [ValueOf(old) EXCEPT !.data = <<>>, !.size = 0, !.zeros = 0,
                                            !.whole = TRUE, !.mtime = mstamp + 1]
       IN  /\ archives' = PutFile(archives, new)
           /\ workers' = [workers EXCEPT ![w].phase = "copy", ![w].dst = new.born]
    /\ mstamp' = mstamp + 1
    /\ UNCHANGED <<live, archdir, now, nrot, pos, opos, nfaults, hist, window>>

\* the bytes a read of f_in returns: the rest of the file it is open on,
\* from the place after the bytes read so far
PlainRest(me, ar) ==
    LET plain == {a \in ar : PathOf(a) = [ts |-> me.ts, gz |-> FALSE]}
        text == IF me.src # {} THEN ValueOf(me.src)
                ELSE IF plain # {} THEN ValueOf(plain).data
                ELSE <<>>
    IN  Drop(text, Len(me.got))

\* rotate_if_needed: shutil.copyfileobj(f_in, f_out), up to its next read of
\* the file.  f_in.read(length) reads the file until a read returns nothing
\* (phase "fill" after a read that returned bytes); copyfileobj ends when
\* f_in.read returns nothing.  f_out.write compresses into the buffer of
\* f_out.
RotateCopy(w) ==
    /\ workers[w].phase \in {"copy", "fill"}
    /\ LET me == workers[w]
           chunk == PlainRest(me, archives)
       IN  workers' = [workers EXCEPT ![w] =
                          IF chunk # <<>>
                          THEN [me EXCEPT !.phase = "fill", !.got = @ \o chunk]
                          ELSE IF me.phase = "fill" THEN [me EXCEPT !.phase = "copy"]
                          ELSE [me EXCEPT !.phase = "gzclose", !.src = {}]]
    /\ UNCHANGED <<files, pos, opos, nfaults, hist, window>>

\* rotate_if_needed: the end of the with block closes f_out, which writes
\* the compressed stream of the bytes copied through the handle, also after
\* copyfileobj has failed; the file may have been removed, or written by
\* another call, since gzip.open
RotateClose(w) ==
    /\ workers[w].phase = "gzclose"
    /\ LET me == workers[w]
           file == {a \in archives : a.gz /\ a.born = me.dst}
       IN  /\ IF file = {}
              THEN UNCHANGED <<archives, mstamp>>
              ELSE /\ \E n \in StreamSizes(me.got) :
                         archives' = PutFile(archives,
                                             Overwritten(ValueOf(file), me.got,
                                                         n, mstamp + 1))
                   /\ mstamp' = mstamp + 1
           /\ workers' = [workers EXCEPT ![w] =
                             IF me.fault = "copy" THEN Unpacked(me)
                             ELSE [me EXCEPT !.phase = "unlink", !.got = <<>>,
                                             !.dst = -1]]
    /\ UNCHANGED <<live, archdir, now, nrot, pos, opos, nfaults, hist, window>>

\* rotate_if_needed: rotated_plain.unlink(missing_ok=True); the handles open
\* on the file stay on it
RotateUnlink(w) ==
    /\ workers[w].phase = "unlink"
    /\ archives' = DelFile(archives, [ts |-> workers[w].ts, gz |-> FALSE])
    /\ workers' = [Unlinked(workers, workers[w].ts, archives) EXCEPT
                      ![w].phase = "glob"]
    /\ UNCHANGED <<live, archdir, now, mstamp, nrot, pos, opos, nfaults, hist,
                   window>>

\* _cleanup_old_archives: archive_dir.glob lists the directory
CleanupGlob(w) ==
    /\ workers[w].phase = "glob"
    /\ \E names \in Globbed({a.ts : a \in {x \in archives : x.gz}}) :
          workers' = [workers EXCEPT ![w] =
                         IF names = <<>> THEN CleanedUp(@)
                         ELSE [@ EXCEPT !.phase = "c_stat", !.listed = names]]
    /\ UNCHANGED <<files, pos, opos, nfaults, hist, window>>

\* _cleanup_old_archives: the sort key x.stat().st_mtime of the next file
\* listed, which fails when the file is gone: the except clause returns
CleanupStat(w) ==
    /\ workers[w].phase = "c_stat"
    /\ LET file == {a \in archives :
                       PathOf(a) = [ts |-> Head(workers[w].listed), gz |-> TRUE]}
           stats == workers[w].stats
                    \o [i \in 1..Cardinality(file) |->
                           [ts |-> ValueOf(file).ts, mtime |-> ValueOf(file).mtime]]
       IN  workers' = [workers EXCEPT ![w] =
                          IF file = {} THEN CleanedUp(@)
                          ELSE IF Tail(@.listed) = <<>> THEN Sorted(@, stats)
                          ELSE [@ EXCEPT !.listed = Tail(@), !.stats = stats]]
    /\ UNCHANGED <<files, pos, opos, nfaults, hist, window>>

\* _cleanup_old_archives: os.remove(f) of the next old file; a failure
\* (the file is gone) is skipped
CleanupRemove(w) ==
    /\ workers[w].phase = "remove"
    /\ archives' = DelFile(archives, [ts |-> Head(workers[w].listed), gz |-> TRUE])
    /\ workers' = [workers EXCEPT ![w] =
                      IF Tail(@.listed) = <<>> THEN CleanedUp(@)
                      ELSE [@ EXCEPT !.listed = Tail(@)]]
    /\ UNCHANGED <<live, archdir, now, mstamp, nrot, pos, opos, nfaults, hist,
                   window>>

\* collect: if rotate_res.rotated: self._pos = 0, and the note
CollectReset(w) ==
    /\ workers[w].phase = "reset"
    /\ SetPos(workers[w].coll,
              ResetOnRotate(workers[w].rot, PosOf(workers[w].coll)))
    /\ workers' = [workers EXCEPT
                      ![w].phase = "stat",
                      ![w].notes = Append(@, Note("log rotated",
                                                  workers[w].rot.archived_path))]
    /\ UNCHANGED <<files, nfaults, hist, window>>

\* collect: st = p.stat(), which fails when the path is gone
CollectStat(w) ==
    /\ workers[w].phase = "stat"
    /\ workers' = [workers EXCEPT ![w] =
                      IF ~PathExists(live)
                      THEN [@ EXCEPT !.phase = "open",
                                     !.notes = Append(@, Note("stat failed", NoPath))]
                      ELSE [@ EXCEPT !.phase = "check", !.size = Len(live.data)]]
    /\ UNCHANGED <<files, pos, opos, nfaults, hist, window>>

\* collect: if self._pos > st.st_size
CollectCheck(w) ==
    /\ workers[w].phase = "check"
    /\ workers' = [workers EXCEPT
                      ![w].size = -1,
                      ![w].phase =
                          IF CheckOffset(PosOf(workers[w].coll), workers[w].size)
                                 = PosOf(workers[w].coll)
                          THEN "open" ELSE "zero"]
    /\ UNCHANGED <<files, pos, opos, nfaults, hist, window>>

\* collect: self._pos = 0
CollectZero(w) ==
    /\ workers[w].phase = "zero"
    /\ SetPos(workers[w].coll, 0)
    /\ workers' = [workers EXCEPT ![w].phase = "open"]
    /\ UNCHANGED <<files, nfaults, hist, window>>

\* collect: open(p), which fails when the path is gone or a directory
CollectOpen(w) ==
    /\ workers[w].phase = "open"
    /\ workers' = [workers EXCEPT ![w] =
                      IF ~IsRegularFile(live) THEN ReadFailed(@)
                      ELSE [@ EXCEPT
                               !.phase = "seek",
                               !.gen = Cardinality({v \in 1..Len(workers) :
                                                       workers[v].moved})]]
    /\ UNCHANGED <<files, pos, opos, nfaults, hist, window>>

\* collect: f.seek(self._pos)
CollectSeek(w) ==
    /\ workers[w].phase = "seek"
    /\ LET me == workers[w]
       IN  workers' = [workers EXCEPT ![w] =
                          [me EXCEPT !.phase = IF me.cfg.max_lines_per_poll > 0
                                              THEN "reading" ELSE "tell",
                                     !.at = PosOf(me.coll),
                                     !.tell = PosOf(me.coll),
                                     !.own = me.held = {} /\ hist.own,
                                     !.fits = Len(HeldText(me, live, archives))]]
    /\ UNCHANGED <<files, pos, opos, nfaults, hist, window>>

\* the bytes a read of the handle returns: the rest of the file it is open
\* on, from the place after the bytes read so far
Fetched(me) ==
    Drop(HeldText(me, live, archives),
         me.tell + Len(me.buf))

\* the worker after a read of the file returned got: at the end of the file
\* readline() returns what the buffer holds ("" ends the loop); otherwise
\* the buffer answers readline() calls while it holds a complete line
AfterRead(me, got) ==
    IF got = <<>> THEN
        IF me.buf = <<>> THEN [me EXCEPT !.phase = "tell"]
        ELSE [me EXCEPT
                 !.lines = Append(@, CutLine(me.buf, me.cfg.max_line_length)),
                 !.tell = @ + Len(me.buf),
                 !.buf = <<>>,
                 !.phase = IF Len(me.lines) + 1 >= me.cfg.max_lines_per_poll
                           THEN "tell" ELSE "reading"]
    ELSE CHOOSE next \in
             {[me EXCEPT
                  !.lines = @ \o rd.lines,
                  !.tell = @ + rd.pos,
                  !.buf = Drop(me.buf \o got, rd.pos),
                  !.phase = IF Len(me.lines) + Len(rd.lines) >= me.cfg.max_lines_per_poll
                            THEN "tell" ELSE "reading"] :
                 rd \in {ReadLines(me.buf \o got,
                                   me.cfg.max_lines_per_poll - Len(me.lines),
                                   me.cfg.max_line_length)}} : TRUE

\* collect: the readline loop up to its next read of the file
CollectRead(w) ==
    /\ workers[w].phase = "reading"
    /\ workers' = [workers EXCEPT ![w] = AfterRead(@, Fetched(@))]
    /\ UNCHANGED <<files, pos, opos, nfaults, hist, window>>

\* collect: self._pos = f.tell(), and the end of the with block
CollectStore(w) ==
    /\ workers[w].phase = "tell"
    /\ SetPos(workers[w].coll, workers[w].tell)
    /\ hist' = [hist EXCEPT !.own = workers[w].held = {}]
    /\ workers' = [workers EXCEPT ![w].phase = "snapshot", ![w].buf = <<>>,
                                  ![w].held = {}, ![w].on = -1]
    /\ UNCHANGED <<files, nfaults, window>>

\* collect: LogData(last_read_pos=self._pos, new_lines=lines, ...) and the
\* return
CollectSnapshot(w) ==
    /\ workers[w].phase = "snapshot"
    /\ workers' = [workers EXCEPT
                      ![w].phase = "return",
                      ![w].res = [kind |-> "result", lines |-> workers[w].lines,
                                  last_read_pos |-> PosOf(workers[w].coll)]]
    /\ UNCHANGED <<files, pos, opos, nfaults, hist, window>>

\* The call that worker w makes next fails, and no try block encloses it:
\* p.exists() of collect, archive_dir.mkdir of rotate_if_needed.  The
\* exception leaves collect().
Raises(w, points) ==
    /\ nfaults < MaxFaults
    /\ workers[w].phase \in points
    /\ nfaults' = nfaults + 1
    /\ workers' = [workers EXCEPT ![w].fault = workers[w].phase,
                                  ![w].phase = "raised",
                                  ![w].ts = -1]
    /\ UNCHANGED <<files, pos, opos, hist, window>>

\* The call that worker w makes next in rotate_if_needed or in
\* _cleanup_old_archives fails inside a try block.
RotateFails(w) ==
    /\ nfaults < MaxFaults
    /\ workers[w].phase \in RotateFaults
    /\ nfaults' = nfaults + 1
    /\ LET me == [workers[w] EXCEPT !.fault = workers[w].phase]
           ph == workers[w].phase
       IN  \/ /\ ph = "r_stat"
              /\ workers' = [workers EXCEPT ![w] = NotRotated(me, "stat failed")]
              /\ UNCHANGED <<archives, mstamp>>
           \/ /\ ph = "move"
              \* os.rename fails and shutil.move goes on to copy the file, or
              \* what made the rename fail makes the open of the copy fail too
              /\ \/ workers' = [workers EXCEPT ![w] = [me EXCEPT !.phase = "mv_open"]]
                 \/ workers' = [workers EXCEPT ![w] = MoveFailed(me)]
              /\ UNCHANGED <<archives, mstamp>>
           \/ /\ ph = "touch"
              /\ workers' = [workers EXCEPT ![w] = NotRotated(me, "rotate move failed")]
              /\ UNCHANGED <<archives, mstamp>>
           \/ /\ ph \in {"r_open", "gzopen", "unlink"}
              /\ workers' = [workers EXCEPT ![w] = Unpacked(me)]
              /\ UNCHANGED <<archives, mstamp>>
           \/ /\ ph = "copy"
              \* copyfileobj fails at a read of f_in: the with block is left,
              \* which closes f_out
              /\ workers' = [workers EXCEPT ![w] = [me EXCEPT !.phase = "gzclose",
                                                              !.src = {}]]
              /\ UNCHANGED <<archives, mstamp>>
           \/ /\ ph \in {"glob", "c_stat"}
              /\ workers' = [workers EXCEPT ![w] = CleanedUp(me)]
              /\ UNCHANGED <<archives, mstamp>>
           \/ /\ ph = "remove"
              /\ workers' = [workers EXCEPT ![w] =
                                IF Tail(me.listed) = <<>> THEN CleanedUp(me)
                                ELSE [me EXCEPT !.listed = Tail(@)]]
              /\ UNCHANGED <<archives, mstamp>>
    /\ UNCHANGED <<live, archdir, now, nrot, pos, opos, hist, window>>

\* The call that worker w makes next in the try blocks of collect fails.
ReadFails(w) ==
    /\ nfaults < MaxFaults
    /\ workers[w].phase \in ReadFaults
    /\ nfaults' = nfaults + 1
    /\ LET me == [workers[w] EXCEPT !.fault = workers[w].phase]
           ph == workers[w].phase
       IN  \/ /\ ph = "stat"
              /\ workers' = [workers EXCEPT ![w] =
                                [me EXCEPT !.phase = "open",
                                           !.notes = Append(@, Note("stat failed",
                                                                    NoPath))]]
              /\ UNCHANGED <<pos, opos>>
           \/ /\ ph = "open"
              /\ workers' = [workers EXCEPT ![w] = ReadFailed(me)]
              /\ UNCHANGED <<pos, opos>>
           \/ /\ ph \in {"reading", "tell"}
              /\ workers' = [workers EXCEPT ![w] = ReadFailed(me)]
              /\ SetPos(me.coll, OffsetAfterFailedRead(PosOf(me.coll), me.tell))
    /\ UNCHANGED <<files, hist, window>>

\* the steps of collect() on a file that is not rotated
ReadSteps(w) ==
    \/ CollectExists(w)
    \/ CollectIsFile(w)
    \/ RotateExists(w)
    \/ RotateIsFile(w)
    \/ RotateStat(w)
    \/ CollectStat(w)
    \/ CollectCheck(w)
    \/ CollectZero(w)
    \/ CollectOpen(w)
    \/ CollectSeek(w)
    \/ CollectRead(w)
    \/ CollectStore(w)
    \/ CollectSnapshot(w)

\* the steps of a rotation
RotateSteps(w) ==
    \/ RotateNow(w)
    \/ RotateMkdir(w)
    \/ RotateMove(w)
    \/ MoveOpen(w)
    \/ MoveCreate(w)
    \/ MoveCopy(w)
    \/ MoveStat(w)
    \/ MoveUnlink(w)
    \/ RotateTouch(w)
    \/ RotateOpen(w)
    \/ RotateGzipOpen(w)
    \/ RotateCopy(w)
    \/ RotateClose(w)
    \/ RotateUnlink(w)
    \/ CleanupGlob(w)
    \/ CleanupStat(w)
    \/ CleanupRemove(w)
    \/ CollectReset(w)

(***************************************************************************)
(* The direct caller: collect() is called, runs and returns.               *)
(***************************************************************************)
\* what the next call keeps of the call before it
Summary(l) ==
    IF l.op # "collect" THEN NoPrev
    ELSE [op |-> "collect", alone |-> l.alone, fault |-> l.fault,
          raised |-> l.raised, new_lines |-> l.new_lines,
          read_from |-> l.read_from, last_read_pos |-> l.last_read_pos,
          rotated |-> l.rot.rotated, moved |-> l.moved, notes |-> l.notes]

\* collect() is entered
Call ==
    /\ workers = <<>>
    /\ workers' = <<[NewWorker("exists") EXCEPT !.coll = Collector, !.cfg = cfg]>>
    /\ last' = [NoLast EXCEPT
                   !.op = "calling", !.alone = TRUE,
                   !.pre_kind = live.kind, !.pre_size = Len(live.data),
                   !.pre_pos = pos, !.pre_data = live.data,
                   !.pre_own = hist.own,
                   !.pre_archives = archives, !.pre_archdir = archdir,
                   !.pre_appended = Len(hist.appended),
                   !.prev = Summary(last)]
    /\ UNCHANGED <<files, cfg, pos, hist, nfaults, written>>
    /\ UNCHANGED <<log_req_id, opos, events, active, shown, applied, others, queue>>

\* collect() returns its snapshot, or raises
Return ==
    /\ workers # <<>>
    /\ workers[1].phase \in {"return", "raised"}
    /\ workers' = <<>>
    /\ LET me == workers[1]
           raised == me.phase = "raised"
       IN  \E hits \in {_keyword_hits(me.lines, me.cfg.keywords)} :
           \E warnings \in {IF raised THEN <<>>
                            ELSE IF ~me.checked THEN <<"Log file not found">>
                            ELSE Warnings(hits, me.notes)} :
             /\ last' = [last EXCEPT
                            !.op = "collect", !.fault = me.fault, !.raised = raised,
                            !.status = IF raised THEN ""
                                       ELSE IF warnings = <<>> THEN "OK" ELSE "WARN",
                            !.warning_count = Len(warnings),
                            !.warnings = warnings,
                            !.last_read_pos = me.res.last_read_pos,
                            !.new_lines = me.res.lines,
                            !.keyword_hits = SortHits(<<>>, hits),
                            !.notes = me.notes, !.rot = me.rot,
                            !.checked = me.checked, !.moved = me.moved,
                            !.read_from = me.at, !.seek_own = me.own,
                            !.seek_size = me.fits,
                            !.prev_off = hist.prev_off]
             /\ hist' = [hist EXCEPT
                            !.delivered = IF hist.quiet THEN @ \o me.res.lines ELSE <<>>,
                            !.prev_off = IF raised \/ ~hist.quiet THEN @
                                         ELSE me.res.last_read_pos]
    /\ UNCHANGED <<files, cfg, pos, nfaults, written>>
    /\ UNCHANGED <<log_req_id, opos, events, active, shown, applied, others, queue>>

\* a step of the call in progress
Collect == \E w \in 1..Len(workers) : ReadSteps(w) \/ RotateSteps(w)

\* a step of a call on a file that is never rotated
Read == \E w \in 1..Len(workers) : ReadSteps(w)

\* a call of the rotation fails, or mkdir raises
RotateFault ==
    \E w \in 1..Len(workers) : RotateFails(w) \/ Raises(w, {"mkdir"})

\* a call of the read fails, or p.exists() raises
ReadFault ==
    \E w \in 1..Len(workers) : ReadFails(w) \/ Raises(w, {"exists"})

Next ==
    \/ AppendLine
    \/ Call
    \/ Collect
    \/ Return

\* Normal operation: the writer appends lines, the caller polls, every
\* filesystem call of the collector succeeds.
Spec == Init /\ [][Next]_vars

\* a collector that never rotates a modelled log
QuietConfigs == {x \in Configs : x.max_bytes = BigBytes /\ x.keep_archives = 1}

\* A collector that never rotates, on an empty log.
InitTail ==
    /\ \E c \in QuietConfigs : Fresh(EmptyFile, c)
    /\ NoWindow

NextTail ==
    \/ AppendLine
    \/ AppendFragment
    \/ Call
    \/ Read
    \/ Return

\* Tailing: the writer appends lines and beginnings of lines to a log below
\* the rotation limit.
SpecTail == InitTail /\ [][NextTail]_vars

\* A collector that never rotates, on a path that is missing, a directory
\* or an empty log.
InitExternal ==
    /\ \E lv \in {MissingFile, EmptyFile, [kind |-> "dir", data |-> <<>>]},
          c \in QuietConfigs : Fresh(lv, c)
    /\ NoWindow

NextExternal ==
    \/ AppendShort
    \/ ReplaceFile
    \/ RemoveFile
    \/ Configure
    \/ Call
    \/ Read
    \/ Return

\* External tools truncate, replace and remove the log, and the caller
\* sets the keywords again, between and during the polls.
SpecExternal == InitExternal /\ [][NextExternal]_vars

\* A collector that keeps one archive, on an empty log.
InitReplaced ==
    /\ \E c \in {x \in Configs : x.keep_archives = 1} : Fresh(EmptyFile, c)
    /\ NoWindow

NextReplaced ==
    \/ AppendShort
    \/ ReplaceFile
    \/ Call
    \/ Collect
    \/ Return

\* An external tool replaces a log that the collector may rotate.
SpecReplaced == InitReplaced /\ [][NextReplaced]_vars

\* A collector that rotates every line, keeping one archive or none.
InitFaults ==
    /\ \E c \in {x \in Configs : x.max_bytes = 2 /\ x.keep_archives <= 1} :
          Fresh(EmptyFile, c)
    /\ NoWindow

NextFaults ==
    \/ AppendEntry
    \/ Call
    \/ Collect
    \/ RotateFault
    \/ Return

\* Operation in which one call of a rotation fails.
SpecFaults == InitFaults /\ [][NextFaults]_vars

NextReadFaults ==
    \/ AppendLine
    \/ Call
    \/ Read
    \/ ReadFault
    \/ Return

\* Tailing in which one call of collect itself fails.
SpecReadFaults == InitTail /\ [][NextReadFaults]_vars

\* A collector with two keyword entries reading up to three lines a poll.
InitKeywords ==
    /\ \E c \in [keywords : HitKeywordLists, max_bytes : {BigBytes},
                keep_archives : {1}, max_lines_per_poll : {LinesPerPoll + 1},
                max_line_length : {MaxLineLen}] : Fresh(EmptyFile, c)
    /\ NoWindow

NextKeywords ==
    \/ AppendHitLine
    \/ Call
    \/ Read
    \/ Return

\* Keyword counting.
SpecKeywords == InitKeywords /\ [][NextKeywords]_vars

NextPolicy ==
    \/ AppendEntry
    \/ Call
    \/ Collect
    \/ Reconfigure
    \/ Return

\* The caller changes one argument of the rotation policy between polls.
SpecPolicy == InitTail /\ [][NextPolicy]_vars

\* A collector built with a rotation limit of zero or of one line.
InitLimits ==
    /\ \E c \in [keywords : KeywordLists, max_bytes : {0, 2},
                keep_archives : KeepChoices, max_lines_per_poll : {LinesPerPoll},
                max_line_length : {MaxLineLen}] : Fresh(EmptyFile, c)
    /\ NoWindow

NextLimits ==
    \/ AppendEntry
    \/ Call
    \/ Collect
    \/ Return

\* Operation of a collector whose rotation limit is at most one line.
SpecLimits == InitLimits /\ [][NextLimits]_vars

(***************************************************************************)
(* MainWindow: the timers, the Apply button, the workers of the thread     *)
(* pool and the signals they queue for the GUI thread.  A log worker is    *)
(* named by the request id of the refresh_logs call that made it, a worker *)
(* of another page by the negative of its place among those workers.       *)
(***************************************************************************)
\* workers holding a thread of the pool
Busy ==
    {w \in 1..Len(workers) : workers[w].phase \notin {"queued", "done"}}
    \cup {OtherId(o) : o \in {x \in 1..Len(others) :
                                 others[x].phase \notin {"queued", "done"}}}

\* QThreadPool.start: a free thread takes the worker, or the worker waits
PoolStart == IF Cardinality(Busy) < PoolThreads THEN "started" ELSE "queued"

\* refresh_logs: a new request id, a worker for it in the active set, and
\* QThreadPool.start
refresh_logs ==
    /\ log_req_id < MaxReq
    /\ log_req_id' = log_req_id + 1
    /\ workers' = Append(workers, NewWorker(PoolStart))
    /\ queue' = IF PoolStart = "queued" THEN Append(queue, log_req_id + 1) ELSE queue
    /\ active' = active \cup {log_req_id + 1}

\* refresh_performance, refresh_activity, refresh_filesystem: a worker in
\* the same active set, started on the same pool
refresh_other(kind) ==
    /\ Len(others) < MaxOther
    /\ others' = Append(others, NewOther(kind, PoolStart))
    /\ queue' = IF PoolStart = "queued"
                THEN Append(queue, OtherId(Len(others) + 1)) ELSE queue
    /\ active' = active \cup {OtherId(Len(others) + 1)}

\* MainWindow.__init__ ends with refresh_performance, refresh_activity,
\* refresh_filesystem and refresh_logs, in this order.
OtherPages == <<"perf", "activity", "fs">>

\* the phase of the n-th worker started while none has ended
StartPhase(n) == IF n <= PoolThreads THEN "started" ELSE "queued"

WindowOpened ==
    /\ log_req_id = 1
    /\ others = [o \in 1..Len(OtherPages) |-> NewOther(OtherPages[o], StartPhase(o))]
    /\ workers = <<NewWorker(StartPhase(Len(OtherPages) + 1))>>
    /\ queue = LET Waits(id) == StartPhase(IF id < 0 THEN 0 - id
                                           ELSE Len(OtherPages) + id) = "queued"
               IN  SelectSeq(<<-1, -2, -3, 1>>, Waits)
    /\ opos = <<>>
    /\ events = <<>>
    /\ active = {-1, -2, -3, 1}
    /\ shown = <<>>
    /\ applied = 0

\* The window once the first workers of the other pages have ended and
\* their signals are handled, when the pool has just taken the first log
\* worker.
WindowIdle ==
    /\ log_req_id = 1
    /\ others = [o \in 1..Len(OtherPages) |-> NewOther(OtherPages[o], "done")]
    /\ workers = <<NewWorker("started")>>
    /\ queue = <<>>
    /\ opos = <<>>
    /\ events = <<>>
    /\ active = {1}
    /\ shown = <<>>
    /\ applied = 0

\* the collectors _build_log_collector makes from the settings of the page
\* in the modelled runs: a rotation limit the log does not reach, one
\* archive kept (Keep Archives is a spin box from 1)
PageConfigs == QuietConfigs

\* self._log_timer.timeout
Tick ==
    /\ refresh_logs
    /\ UNCHANGED <<files, cfg, pos, last, hist, nfaults, written, opos, events,
                   shown, applied, others>>

\* the timers of the other pages
OtherTick ==
    /\ \E kind \in Range(OtherPages) : refresh_other(kind)
    /\ UNCHANGED <<files, cfg, pos, last, hist, nfaults, written, log_req_id,
                   workers, opos, events, shown, applied>>

\* _on_log_apply up to _build_log_collector: a new collector with the
\* settings of the page and offset 0 takes the place of the collector in use
Rebuild(c) ==
    /\ Len(opos) < MaxApply
    /\ opos' = Append(opos, pos)
    /\ pos' = 0
    /\ cfg' = c
    /\ hist' = [Disturbed EXCEPT !.whole = hist.whole]
    /\ last' = NoLast
    /\ applied' = log_req_id + 1

\* _on_log_apply: the new collector, _save_config, then refresh_logs
Apply ==
    /\ \E c \in PageConfigs : Rebuild(c)
    /\ refresh_logs
    /\ UNCHANGED <<files, nfaults, written, events, shown, others>>

\* _on_log_apply when _save_config raises: the collector is replaced and
\* refresh_logs is not called
ApplySaveFails ==
    /\ nfaults < MaxFaults
    /\ nfaults' = nfaults + 1
    /\ \E c \in PageConfigs : Rebuild(c)
    /\ UNCHANGED <<files, written, log_req_id, workers, queue, events, active,
                   shown, others>>

\* workers that have left collect()
Ended ==
    {v \in 1..Len(workers) :
        workers[v].phase \in {"raised", "return", "emitted", "finished", "done"}}

\* Worker.run: job() evaluates self._log_collector and enters collect()
WorkerBegin(w) ==
    /\ workers[w].phase = "started"
    /\ workers' = [workers EXCEPT ![w].phase = "exists", ![w].coll = Collector,
                                  ![w].cfg = cfg, ![w].seen = Ended]
    /\ UNCHANGED <<files, pos, opos, nfaults, hist, window>>

\* Variant: finished is emitted after result only (no finally clause).
SignalsWithoutFinally(raised) ==
    IF raised THEN <<"error">> ELSE <<"result", "finished">>

\* Worker.run: result when job() returns, error when it raises, and
\* finished in either case
Signals(raised) == <<IF raised THEN "error" ELSE "result", "finished">>

\* Worker.run: self.signals.result.emit(res)
WorkerResult(w) ==
    /\ workers[w].phase = "return"
    /\ workers' = [workers EXCEPT ![w].phase = "emitted",
                                  ![w].todo = Tail(Signals(FALSE))]
    /\ events' = Append(events, [sig |-> Head(Signals(FALSE)), w |-> w])
    /\ UNCHANGED <<files, cfg, pos, opos, last, hist, nfaults, written, log_req_id,
                   active, shown, applied, queue, others>>

\* Worker.run: the exception of job() is emitted as error
WorkerError(w) ==
    /\ workers[w].phase = "raised"
    /\ workers' = [workers EXCEPT
                      ![w].phase = "emitted",
                      ![w].todo = Tail(Signals(TRUE)),
                      ![w].res = [NoRes EXCEPT !.kind = "error"]]
    /\ events' = Append(events, [sig |-> Head(Signals(TRUE)), w |-> w])
    /\ UNCHANGED <<files, cfg, pos, opos, last, hist, nfaults, written, log_req_id,
                   active, shown, applied, queue, others>>

\* Worker.run: finally: self.signals.finished.emit()
WorkerFinished(w) ==
    /\ workers[w].phase = "emitted"
    /\ events' = events \o [i \in 1..Len(workers[w].todo) |->
                               [sig |-> workers[w].todo[i], w |-> w]]
    /\ workers' = [workers EXCEPT ![w].phase = "finished", ![w].todo = <<>>]
    /\ UNCHANGED <<files, cfg, pos, opos, last, hist, nfaults, written, log_req_id,
                   active, shown, applied, queue, others>>

\* run() of the worker id has returned: its thread takes the worker that
\* waited longest
Released(id) ==
    LET next == IF queue = <<>> THEN 0 ELSE Head(queue)
    IN  /\ queue' = IF queue = <<>> THEN queue ELSE Tail(queue)
        /\ workers' =
              [v \in 1..Len(workers) |->
                 IF v = id THEN [workers[v] EXCEPT !.phase = "done"]
                 ELSE IF v = next THEN [workers[v] EXCEPT !.phase = "started"]
                 ELSE workers[v]]
        /\ others' =
              [o \in 1..Len(others) |->
                 IF OtherId(o) = id THEN [others[o] EXCEPT !.phase = "done"]
                 ELSE IF OtherId(o) = next THEN [others[o] EXCEPT !.phase = "started"]
                 ELSE others[o]]

\* Worker.run returns and the pool has its thread back
WorkerReturn(w) ==
    /\ workers[w].phase = "finished"
    /\ Released(w)
    /\ UNCHANGED <<files, cfg, pos, opos, last, hist, nfaults, written, log_req_id,
                   events, active, shown, applied>>

\* Worker.run of a worker of another page: its job returns or raises
OtherRun(o) ==
    /\ others[o].phase = "started"
    /\ \E raised \in BOOLEAN :
          /\ others' = [others EXCEPT ![o].phase = "emitted",
                                      ![o].todo = Tail(Signals(raised))]
          /\ events' = Append(events, [sig |-> Head(Signals(raised)), w |-> OtherId(o)])
    /\ UNCHANGED <<files, cfg, pos, opos, last, hist, nfaults, written, log_req_id,
                   workers, active, shown, applied, queue>>

\* Worker.run of a worker of another page: finally: finished.emit()
OtherFinished(o) ==
    /\ others[o].phase = "emitted"
    /\ events' = events \o [i \in 1..Len(others[o].todo) |->
                               [sig |-> others[o].todo[i], w |-> OtherId(o)]]
    /\ others' = [others EXCEPT ![o].phase = "finished", ![o].todo = <<>>]
    /\ UNCHANGED <<files, cfg, pos, opos, last, hist, nfaults, written, log_req_id,
                   workers, active, shown, applied, queue>>

\* Worker.run of a worker of another page returns
OtherReturn(o) ==
    /\ others[o].phase = "finished"
    /\ Released(OtherId(o))
    /\ UNCHANGED <<files, cfg, pos, opos, last, hist, nfaults, written, log_req_id,
                   events, active, shown, applied>>

\* if req_id != self._log_req_id: return
IsStale(req_id) == req_id # log_req_id

\* _on_log_result in the GUI thread: a stale request id is dropped
OnLogResult ==
    /\ events # <<>>
    /\ Head(events).sig = "result"
    /\ Head(events).w > 0
    /\ events' = Tail(events)
    /\ shown' = IF IsStale(Head(events).w) THEN shown
                 ELSE Append(shown, [req |-> Head(events).w,
                                     lines |-> workers[Head(events).w].res.lines])
    /\ UNCHANGED <<files, cfg, pos, last, hist, nfaults, written, log_req_id,
                   workers, opos, active, applied, queue, others>>

\* _on_perf_result, _on_activity_result, _on_filesystem_result
OnOtherResult ==
    /\ events # <<>>
    /\ Head(events).sig = "result"
    /\ Head(events).w < 0
    /\ events' = Tail(events)
    /\ UNCHANGED <<files, cfg, pos, last, hist, nfaults, written, log_req_id,
                   workers, opos, active, shown, applied, queue, others>>

\* _on_worker_error in the GUI thread: a status bar message
OnWorkerError ==
    /\ events # <<>>
    /\ Head(events).sig = "error"
    /\ events' = Tail(events)
    /\ UNCHANGED <<files, cfg, pos, last, hist, nfaults, written, log_req_id,
                   workers, opos, active, shown, applied, queue, others>>

\* the finished signal in the GUI thread: self._active_workers.discard(w)
OnFinished ==
    /\ events # <<>>
    /\ Head(events).sig = "finished"
    /\ events' = Tail(events)
    /\ active' = active \ {Head(events).w}
    /\ UNCHANGED <<files, cfg, pos, last, hist, nfaults, written, log_req_id,
                   workers, opos, shown, applied, queue, others>>

\* a step of a pool thread running a log worker on a log below the
\* rotation limit
WorkerStep(w) ==
    \/ WorkerBegin(w)
    \/ ReadSteps(w)
    \/ WorkerResult(w)
    \/ WorkerFinished(w)
    \/ WorkerReturn(w)

\* a step of a pool thread running a log worker whose p.exists() may raise
WorkerRuns(w) ==
    \/ WorkerStep(w)
    \/ Raises(w, {"exists"})
    \/ WorkerError(w)

\* a step of a pool thread running a log worker that may rotate the log
WorkerRotates(w) ==
    \/ WorkerStep(w)
    \/ RotateSteps(w)

\* a step of a thread of the pool
PoolStep ==
    \/ \E w \in 1..Len(workers) : WorkerRuns(w)
    \/ \E o \in 1..Len(others) : OtherRun(o)
    \/ \E o \in 1..Len(others) : OtherFinished(o)
    \/ \E o \in 1..Len(others) : OtherReturn(o)

\* the event loop of the GUI thread handling a queued signal
EventLoopStep == OnLogResult \/ OnOtherResult \/ OnWorkerError \/ OnFinished

\* The idle window on the path lv, which the collector of the page, built
\* with c, has not read
Idle(lv, c) ==
    /\ Fresh(lv, c)
    /\ WindowIdle

InitGui == \E c \in PageConfigs : Idle(EmptyFile, c)

NextGui ==
    \/ AppendEntry
    \/ Tick
    \/ Apply
    \/ ApplySaveFails
    \/ \E w \in 1..Len(workers) : WorkerStep(w)
    \/ OnLogResult
    \/ OnFinished

\* The log page at work: the log timer, the Apply button and the writer,
\* while the other pages are idle.
SpecGui == InitGui /\ [][NextGui]_vars

\* The idle window on a log of one line that nobody writes to.
InitGuiLive ==
    \E c \in PageConfigs : Idle([kind |-> "file", data |-> <<"E", NL>>], c)

NextGuiLive ==
    \/ Tick
    \/ OtherTick
    \/ PoolStep
    \/ EventLoopStep

\* The timers of all pages at work, with pool threads that keep running the
\* workers they took and an event loop that keeps handling the queued
\* signals.
SpecGuiLive ==
    InitGuiLive /\ [][NextGuiLive]_vars /\ WF_vars(PoolStep) /\ WF_vars(EventLoopStep)

\* The main window just built, on a log of one line that nobody writes to.
InitWindow ==
    /\ \E c \in PageConfigs : Fresh([kind |-> "file", data |-> <<"E", NL>>], c)
    /\ WindowOpened

NextWindow ==
    \/ Tick
    \/ PoolStep
    \/ EventLoopStep

\* The first workers of the four pages and the log timer.
SpecWindow == InitWindow /\ [][NextWindow]_vars

\* the archive a rotation of the line 'E' in second 0 has left
OldArchive ==
    [ts |-> 0, gz |-> TRUE, data |-> <<"E", NL>>, size |-> 22, whole |-> TRUE,
     zeros |-> 3, mtime |-> 0, born |-> 0]

\* The idle window with a collector that rotates every line and keeps one
\* archive, in the second after an earlier run has rotated the log.
InitRace ==
    /\ \E c \in {x \in Configs : x.max_bytes = 2 /\ x.keep_archives = 1} :
          Started(EmptyFile, c, {OldArchive}, 1)
    /\ WindowIdle

NextRace ==
    \/ AppendEntry
    \/ Tick
    \/ \E w \in 1..Len(workers) : WorkerRotates(w)

\* Two workers of the log page in collect() of one collector at the same
\* time, on a log that is being written and rotated.
SpecRace == InitRace /\ [][NextRace]_vars

(***************************************************************************)
(* Vocabulary of the properties, independent of the reading loop.          *)
(***************************************************************************)
\* The lines of a text: the bodies between terminators, and the
\* unterminated rest when there is one.
RECURSIVE SplitLines(_)
SplitLines(text) ==
    IF text = <<>> THEN <<>>
    ELSE IF \A i \in 1..Len(text) : text[i] # NL THEN <<text>>
    ELSE LET i == CHOOSE k \in 1..Len(text) :
                      text[k] = NL /\ \A j \in 1..(k - 1) : text[j] # NL
         IN  <<SubSeq(text, 1, i - 1)>> \o SplitLines(SubSeq(text, i + 1, Len(text)))

\* A line as a snapshot shows it: cut at max_line_length, with the marker.
Shown(line) ==
    IF Len(line) > cfg.max_line_length
    THEN SubSeq(line, 1, cfg.max_line_length) \o <<Ellipsis>>
    ELSE line

ShownAll(lines) == [i \in 1..Len(lines) |-> Shown(lines[i])]

\* Size in bytes of terminated lines.
RECURSIVE BytesOf(_)
BytesOf(lines) ==
    IF lines = <<>> THEN 0 ELSE Len(Head(lines)) + 1 + BytesOf(Tail(lines))

Polled == last.op = "collect"

Returned == Polled /\ ~last.raised

HasNote(tag) == \E i \in 1..Len(last.notes) : last.notes[i].tag = tag

\* the poll ran with nothing else acting between its entry and its return
Alone == Polled /\ last.alone

\* the poll directly follows another poll of the same kind: nothing acted
\* between the return of the one and the return of the other
TwoPolls == Alone /\ last.prev.op = "collect" /\ last.prev.alone

(***************************************************************************)
(* C1.  In a run made only of appends of complete lines and of polls (the  *)
(* file never rotated, truncated or replaced), the lines returned by all   *)
(* polls, concatenated in poll order, are the appended lines, each as      *)
(* shown after max_line_length truncation, in order and without gap or     *)
(* repetition; once a poll returns fewer lines than max_lines_per_poll     *)
(* every line appended before that poll began has been returned.           *)
(***************************************************************************)
C1_AppendedLinesDeliveredOnce ==
    hist.quiet /\ hist.whole =>
        LET n == Len(hist.delivered)
        IN  /\ n <= Len(hist.appended)
            /\ hist.delivered = ShownAll(SubSeq(hist.appended, 1, n))
            /\ Polled /\ Len(last.new_lines) < cfg.max_lines_per_poll
                   => n >= last.pre_appended

\* all lines are delivered, one of them cut, and the writer appended while
\* the last poll ran
C1_Witness ==
    /\ hist.quiet /\ hist.whole /\ Polled /\ ~last.alone
    /\ Len(hist.delivered) > cfg.max_lines_per_poll
    /\ hist.delivered = ShownAll(hist.appended)
    /\ \E i \in 1..Len(hist.delivered) : hist.delivered[i] # hist.appended[i]

(***************************************************************************)
(* C2.  While the run is made only of polls and of appends that do not     *)
(* rotate the file (no rotation, truncation, replacement, removal or       *)
(* reconfiguration), each snapshot reports a last_read_pos at least as     *)
(* large as the one reported by the snapshot before it.                    *)
(***************************************************************************)
C2_OffsetsNonDecreasing ==
    Returned /\ hist.quiet /\ last.prev_off >= 0
        => last.last_read_pos >= last.prev_off

C2_Witness ==
    /\ Returned /\ hist.quiet /\ ~last.alone
    /\ last.prev_off > 0
    /\ last.last_read_pos > last.prev_off

(***************************************************************************)
(* C3.  The next poll of a live file that has reached max_bytes or more    *)
(* reports the rotation with a "log rotated" note, leaves the live file    *)
(* empty or smaller than it was, and reads from offset 0;                  *)
(* C3_RotationReported: and for every keep_archives a new archive holding  *)
(* the old content is in the archive directory;                            *)
(* C3_RotationReportedWhenKept: and when keep_archives is at least 1 a new *)
(* archive holding the old content is in the archive directory.            *)
(* (The poll is the only thing that acts on the file while it runs.)       *)
(***************************************************************************)
RotationDue ==
    /\ Alone
    /\ last.pre_kind = "file"
    /\ cfg.max_bytes >= 1
    /\ last.pre_size >= cfg.max_bytes

\* rotated=true and the note, the live file, the offset of the read
RotationSeen ==
    /\ ~last.raised
    /\ last.rot.rotated
    /\ HasNote("log rotated")
    /\ live.kind = "file"
    /\ Len(live.data) = 0 \/ Len(live.data) < last.pre_size
    /\ last.read_from = 0

\* a new archive exists in the archives directory
ArchiveMade ==
    \E a \in archives :
        /\ PathOf(a) = last.rot.archived_path
        /\ a.data = last.pre_data
        /\ a \notin last.pre_archives

\* C3 with the archive for every keep_archives: the rotation is reported,
\* the live file is empty or smaller, the read starts at 0, the archive exists
C3_RotationReported == RotationDue => RotationSeen /\ ArchiveMade

\* C3 with the archive for keep_archives >= 1: the rotation is reported, the
\* live file is empty or smaller, the read starts at 0 for every
\* keep_archives; the archive exists when keep_archives >= 1
C3_RotationReportedWhenKept ==
    RotationDue => /\ RotationSeen
                   /\ cfg.keep_archives >= 1 => ArchiveMade

C3_Witness ==
    /\ RotationDue /\ cfg.keep_archives >= 1
    /\ last.pre_pos > 0
    /\ last.pre_archives # {}
    /\ last.rot.rotated
    /\ ArchiveMade

(***************************************************************************)
(* C4.  After N rotations with keep_archives = k < N exactly k archive     *)
(* files remain in the archive directory, and they are the k most          *)
(* recently created ones (the j-th rotation leaves its archive with the    *)
(* modification stamp 2j: one stamp for gzip.open, one for the write).     *)
(***************************************************************************)
C4_RetentionKeepsNewest ==
    Polled /\ last.rot.rotated /\ nrot > cfg.keep_archives =>
        /\ Cardinality(archives) = cfg.keep_archives
        /\ {a.mtime : a \in archives} =
               {2 * j : j \in (nrot - cfg.keep_archives + 1)..nrot}

(***************************************************************************)
(* C5.  A poll that finds the live file shorter than the stored offset,    *)
(* and does not rotate it, reads from offset 0 and returns the lines of    *)
(* the file from its first line on (up to max_lines_per_poll of them).     *)
(***************************************************************************)
C5_ShorterFileReadFromStart ==
    /\ Returned /\ last.alone
    /\ last.pre_kind = "file"
    /\ last.pre_size < last.pre_pos
    /\ ~last.rot.rotated
    => /\ last.read_from = 0
       /\ last.new_lines =
              Take(ShownAll(SplitLines(live.data)), cfg.max_lines_per_poll)

C5_Witness ==
    /\ Returned /\ last.alone
    /\ last.pre_kind = "file"
    /\ last.pre_size < last.pre_pos
    /\ ~last.rot.rotated
    /\ last.new_lines # <<>>

(***************************************************************************)
(* C6.  Two polls in a row on a file whose unread part is n complete       *)
(* lines, n above max_lines_per_poll = m.  The first returns the first m   *)
(* lines and leaves the offset just past line m.  C6_SecondPollReturnsRest *)
(* is the case m = 2, n = 5 with the second poll returning the remaining   *)
(* 3 lines; C6_SecondPollReturnsNextBatch gives the second poll the next   *)
(* min(m, n - m) lines and the offset just past them.                      *)
(***************************************************************************)
\* the lines the first of the two polls had not read
Unread == SplitLines(Drop(last.pre_data, last.prev.read_from))

BatchPending ==
    /\ TwoPolls
    /\ ~last.prev.raised
    /\ ~last.prev.moved
    /\ last.prev.read_from >= 0
    /\ last.pre_kind = "file"
    /\ last.pre_data # <<>>
    /\ last.pre_data[Len(last.pre_data)] = NL
    /\ cfg.max_lines_per_poll >= 1
    /\ Len(Unread) > cfg.max_lines_per_poll

FirstBatch ==
    /\ last.prev.new_lines = ShownAll(SubSeq(Unread, 1, cfg.max_lines_per_poll))
    /\ last.prev.last_read_pos =
           last.prev.read_from + BytesOf(SubSeq(Unread, 1, cfg.max_lines_per_poll))

C6_SecondPollReturnsRest ==
    /\ BatchPending
    /\ cfg.max_lines_per_poll = 2
    /\ Len(Unread) = 5
    => /\ FirstBatch
       /\ last.new_lines = ShownAll(SubSeq(Unread, 3, 5))

C6_SecondPollReturnsNextBatch ==
    BatchPending
        => LET m == cfg.max_lines_per_poll
               upto == Min(2 * m, Len(Unread))
           IN  /\ FirstBatch
               /\ last.new_lines = ShownAll(SubSeq(Unread, m + 1, upto))
               /\ last.last_read_pos =
                      last.prev.read_from + BytesOf(SubSeq(Unread, 1, upto))

C6_Witness ==
    /\ BatchPending
    /\ hist.quiet /\ hist.whole
    /\ cfg.max_lines_per_poll = 2
    /\ Len(hist.appended) = 5
    /\ Len(hist.delivered) = 4
    /\ Len(last.new_lines) = 2

(***************************************************************************)
(* C7.  collect() returns a snapshot and never raises, and a poll in which *)
(* a filesystem operation failed returns a snapshot carrying a note.       *)
(***************************************************************************)
C7_NeverRaisesAlwaysNotes ==
    Polled =>
        /\ ~last.raised
        /\ last.fault # "none" => last.notes # <<>>

(***************************************************************************)
(* C8.  Once the live file has been moved to the archive path, the         *)
(* rotation is reported as rotated and the poll reads from offset 0.       *)
(***************************************************************************)
C8_MovedMeansRotated ==
    Polled /\ last.moved => last.rot.rotated /\ last.read_from = 0

(***************************************************************************)
(* C9.  When compression fails after the move, the result is rotated with  *)
(* the uncompressed archive path and the message "gzip failed", and the    *)
(* uncompressed archive is on disk with the content the live file had      *)
(* before the rotation.                                                    *)
(***************************************************************************)
CompressionFailed ==
    Polled /\ last.moved /\ last.fault \in {"r_open", "gzopen", "copy", "unlink"}

C9_CompressionFailureKeepsPlainArchive ==
    CompressionFailed /\ last.alone =>
        /\ last.rot.rotated
        /\ last.rot.message = "gzip failed"
        /\ last.rot.archived_path = [ts |-> now, gz |-> FALSE]
        /\ \E a \in archives :
              /\ PathOf(a) = last.rot.archived_path
              /\ a.data = last.pre_data
              /\ a.whole

C9_Witness ==
    /\ CompressionFailed /\ last.alone
    /\ last.fault = "copy"
    /\ last.pre_data # <<>>
    /\ \E a \in archives :
          /\ PathOf(a) = [ts |-> now, gz |-> TRUE]
          /\ a.whole /\ a.data = <<>> /\ a.size = 20

(***************************************************************************)
(* C10.  A poll on a path that is missing or not a regular file returns a  *)
(* snapshot with one note, status WARN and no lines, reports the offset it *)
(* found and leaves it unchanged, does not run the rotation check and      *)
(* changes nothing on the file system.                                     *)
(***************************************************************************)
C10_MissingFileLeavesEverything ==
    Alone /\ last.pre_kind # "file"
        => /\ ~last.raised
           /\ last.status = "WARN"
           /\ last.warning_count = 1
           /\ last.new_lines = <<>>
           /\ last.keyword_hits = <<>>
           /\ last.notes = <<Note("Log file not found", NoPath)>>
           /\ last.last_read_pos = last.pre_pos
           /\ ~last.checked
           /\ pos = last.pre_pos
           /\ live.kind = last.pre_kind
           /\ live.data = last.pre_data
           /\ archives = last.pre_archives
           /\ archdir = last.pre_archdir

C10_Witness ==
    /\ Alone /\ ~last.raised
    /\ last.pre_kind = "none"
    /\ last.pre_pos > 0
    /\ last.status = "WARN"

(***************************************************************************)
(* C11.  A poll that directly follows a poll (nothing appended, truncated, *)
(* replaced or reconfigured in between) and does not rotate returns no     *)
(* line and the offset of the poll before it.  C11_IdlePollReturnsNothing  *)
(* states it for every such poll; C11_IdlePollAtEndOfFile for the polls    *)
(* that find the offset at the end of the file (or no regular file), and   *)
(* adds that the poll leaves the offset and the file system as they were.  *)
(***************************************************************************)
IdlePoll ==
    /\ TwoPolls
    /\ ~last.raised /\ ~last.prev.raised
    /\ ~last.moved

C11_IdlePollReturnsNothing ==
    IdlePoll
        => /\ last.new_lines = <<>>
           /\ last.last_read_pos = last.prev.last_read_pos

C11_IdlePollAtEndOfFile ==
    IdlePoll /\ (last.pre_kind = "file" => last.pre_pos = last.pre_size)
        => /\ last.new_lines = <<>>
           /\ last.last_read_pos = last.prev.last_read_pos
           /\ pos = last.pre_pos
           /\ live.kind = last.pre_kind
           /\ live.data = last.pre_data
           /\ archives = last.pre_archives
           /\ archdir = last.pre_archdir

C11_Witness ==
    /\ IdlePoll
    /\ last.pre_kind = "file"
    /\ last.pre_size > 0
    /\ last.pre_pos = last.pre_size
    /\ last.new_lines = <<>>
    /\ pos = last.pre_pos

(***************************************************************************)
(* C12.  The offset a poll seeks to is 0 or a position returned by an      *)
(* earlier successful read of the file that is at the path at the time of  *)
(* the seek, and it is not beyond the size of that file.                   *)
(***************************************************************************)
C12_OffsetOfSameFileWithinSize ==
    Polled /\ last.read_from >= 0 =>
        /\ last.read_from = 0 \/ last.seek_own
        /\ last.read_from <= last.seek_size

(***************************************************************************)
(* C15.  configure leaves the offset at 0 (whatever it changes, so also    *)
(* when it changes the rotation policy); a call giving only                *)
(* rotate_max_bytes sets max_bytes and leaves keep_archives as it was, a   *)
(* call giving only rotate_keep_archives sets keep_archives and leaves     *)
(* max_bytes as it was, and neither touches the keywords.                  *)
(***************************************************************************)
C15_ConfigureResetsOffsetKeepsOtherPolicy ==
    [][ last'.op = "configure"
        => LET keywords == last'.call[1]
               rotate_max_bytes == last'.call[2]
               rotate_keep_archives == last'.call[3]
           IN  /\ pos' = 0
               /\ cfg'.keywords =
                      IF keywords = Absent THEN cfg.keywords ELSE ValueOf(keywords)
               /\ cfg'.max_bytes =
                      IF rotate_max_bytes = Absent THEN cfg.max_bytes
                      ELSE ValueOf(rotate_max_bytes)
               /\ cfg'.keep_archives =
                      IF rotate_keep_archives = Absent THEN cfg.keep_archives
                      ELSE ValueOf(rotate_keep_archives) ]_vars

C15_Witness ==
    /\ last.op = "configure"
    /\ last.call[2] # Absent
    /\ cfg.max_bytes = 2
    /\ cfg.keep_archives = 2
    /\ pos = 0
    /\ live.kind = "file" /\ Len(live.data) >= 2
    /\ archives # {}

(***************************************************************************)
(* C16.  rotate_if_needed on a regular file smaller than max_bytes returns *)
(* rotated = FALSE, no archived path and the message "no rotation", and    *)
(* leaves the live file, the archive directory and its files as they were; *)
(* on a file of max_bytes or more it rotates.                              *)
(***************************************************************************)
C16_RotatesExactlyFromMaxBytes ==
    Alone /\ last.checked
        => IF last.pre_size < cfg.max_bytes
           THEN /\ last.rot = RotateResult(FALSE, NoPath, "no rotation")
                /\ ~last.moved
                /\ live.kind = last.pre_kind
                /\ live.data = last.pre_data
                /\ archives = last.pre_archives
                /\ archdir = last.pre_archdir
           ELSE /\ last.rot.rotated
                /\ last.rot.archived_path # NoPath
                /\ last.moved
                /\ archdir

C16_Witness ==
    /\ Alone /\ last.checked
    /\ last.pre_size = cfg.max_bytes - 1
    /\ last.rot.message = "no rotation"
    /\ live.kind = "file" /\ Len(live.data) = last.pre_size
    /\ ~archdir

(***************************************************************************)
(* Keyword vocabulary, independent of _keyword_hits.                       *)
(***************************************************************************)
\* the line contains the keyword as a literal, case ignored
ContainsIgnoringCase(line, k) ==
    \E i \in 1..(Len(line) + 1) :
        /\ i + Len(k) - 1 <= Len(line)
        /\ \A j \in 1..Len(k) : LowerChar(line[i + j - 1]) = LowerChar(k[j])

MatchingLines(lines, k) ==
    Cardinality({i \in 1..Len(lines) : ContainsIgnoringCase(lines[i], k)})

\* the configured keyword entries that are not blank, trimmed, in order
Entries == SelectSeq([i \in 1..Len(cfg.keywords) |-> Strip(cfg.keywords[i])],
                     LAMBDA k : k # <<>>)

NoDuplicateKeyword ==
    \A i, j \in 1..Len(Entries) : Entries[i] = Entries[j] => i = j

(***************************************************************************)
(* C17.  With a keyword list without duplicates, every keyword hit of a    *)
(* snapshot carries the number of lines of the batch that contain its      *)
(* keyword as a literal, case ignored (a line counts once however often    *)
(* it contains the keyword), every keyword contained in some line has a    *)
(* hit, and no keyword has two.                                            *)
(***************************************************************************)
C17_CountIsNumberOfMatchingLines ==
    Returned /\ NoDuplicateKeyword =>
        /\ \A i \in 1..Len(last.keyword_hits) :
              LET h == last.keyword_hits[i]
              IN  /\ \E e \in 1..Len(Entries) : Entries[e] = h.keyword
                  /\ h.count = MatchingLines(last.new_lines, h.keyword)
                  /\ \A j \in 1..Len(last.keyword_hits) :
                        last.keyword_hits[j].keyword = h.keyword => j = i
        /\ \A e \in 1..Len(Entries) :
              MatchingLines(last.new_lines, Entries[e]) > 0
                  => \E i \in 1..Len(last.keyword_hits) :
                         last.keyword_hits[i].keyword = Entries[e]

\* two lines with the keyword, in either case, one of them with the keyword
\* twice: one hit, of count 2
C17_Witness ==
    /\ Returned /\ NoDuplicateKeyword
    /\ cfg.keywords = << <<" ">>, <<"E", " ">> >>
    /\ last.new_lines = << <<"E">>, <<"e", "E">> >>
    /\ last.keyword_hits = << [keyword |-> <<"E">>, count |-> 2] >>

(***************************************************************************)
(* C18.  The keyword hits of a snapshot of a regular file are one per      *)
(* configured non-blank keyword entry: as many hits carry a keyword as     *)
(* entries give it (one for a keyword without a matching line, two for a   *)
(* keyword given twice), and each hit carries the number of lines of the   *)
(* batch that contain its keyword.                                         *)
(***************************************************************************)
C18_OneHitPerConfiguredKeyword ==
    Returned /\ last.checked =>
        /\ Len(last.keyword_hits) = Len(Entries)
        /\ \A e \in 1..Len(Entries) :
              Cardinality({i \in 1..Len(last.keyword_hits) :
                              last.keyword_hits[i].keyword = Entries[e]})
                  = Cardinality({d \in 1..Len(Entries) : Entries[d] = Entries[e]})
        /\ \A i \in 1..Len(last.keyword_hits) :
              last.keyword_hits[i].count =
                  MatchingLines(last.new_lines, last.keyword_hits[i].keyword)

(***************************************************************************)
(* C19.  The keyword hits of a snapshot are in descending order of count,  *)
(* and of two hits with the same count the one whose keyword comes first   *)
(* in the configuration comes first.                                       *)
(***************************************************************************)
\* position of the first entry giving the keyword
EntryOf(k) == CHOOSE e \in 1..Len(Entries) :
                  Entries[e] = k /\ \A d \in 1..(e - 1) : Entries[d] # k

C19_TiesInConfigurationOrder ==
    Returned =>
        \A i, j \in 1..Len(last.keyword_hits) :
            i < j =>
                LET a == last.keyword_hits[i]
                    b == last.keyword_hits[j]
                IN  /\ a.count >= b.count
                    /\ a.count = b.count => EntryOf(a.keyword) < EntryOf(b.keyword)

(***************************************************************************)
(* C20.  The snapshot of a poll on a regular file has status WARN when     *)
(* some line of the batch contains a configured keyword and status OK      *)
(* otherwise, whatever notes the rotation, a failed stat or a failed read  *)
(* left; warning_count is the number of warnings of the snapshot.          *)
(***************************************************************************)
SomeKeywordHit ==
    \E e \in 1..Len(Entries) : MatchingLines(last.new_lines, Entries[e]) > 0

C20_WarnExactlyOnHits ==
    Returned /\ last.checked =>
        /\ last.status = IF SomeKeywordHit THEN "WARN" ELSE "OK"
        /\ last.warning_count = Len(last.warnings)
        /\ last.warning_count = IF SomeKeywordHit THEN 1 ELSE 0

C20_Witness ==
    /\ Returned /\ last.checked
    /\ last.notes # <<>>
    /\ last.new_lines # <<>>
    /\ last.status = "OK"
    /\ last.warning_count = 0

(***************************************************************************)
(* C13.  No two workers are inside collect() of the same collector at the  *)
(* same time.                                                              *)
(***************************************************************************)
InCollect(w) == workers[w].phase \in CollectPhases

C13_OnePollInFlightPerCollector ==
    \A v, w \in 1..Len(workers) :
        InCollect(v) /\ InCollect(w) /\ workers[v].coll = workers[w].coll => v = w

(***************************************************************************)
(* C14.  A snapshot is handed to the log page only when its request id is  *)
(* the latest one issued; so the request ids of the snapshots shown grow   *)
(* strictly, and once Apply was clicked no snapshot of a request issued    *)
(* before the click is shown.                                              *)
(***************************************************************************)
C14_OnlyLatestRequestShown ==
    [][ shown' # shown
        => /\ Len(shown') = Len(shown) + 1
           /\ SubSeq(shown', 1, Len(shown)) = shown
           /\ shown'[Len(shown')].req = log_req_id
           /\ shown'[Len(shown')].req >= applied
           /\ shown # <<>> => shown[Len(shown)].req < shown'[Len(shown')].req ]_vars

(***************************************************************************)
(* C22.  A poll that directly follows a poll that rotated the log, with    *)
(* nothing appended in between, does not rotate again, whatever max_bytes  *)
(* is configured.                                                          *)
(***************************************************************************)
C22_NoRotationAfterRotation ==
    TwoPolls /\ last.prev.rotated => ~last.rot.rotated /\ ~last.moved

(***************************************************************************)
(* C23.  The rotation check runs before the read of the same poll: when    *)
(* lines appended since the previous poll have brought the file to         *)
(* max_bytes or more, the poll moves them away unread.  It returns no line *)
(* and no keyword hit, reads from offset 0 of the new empty live file, and *)
(* the unread lines are no longer in the live file for a later poll.       *)
(***************************************************************************)
UnreadBeforePoll == Drop(last.pre_data, last.pre_pos)

C23_RotationDropsUnreadLines ==
    RotationDue /\ last.pre_pos < last.pre_size
        => /\ last.moved
           /\ last.new_lines = <<>>
           /\ last.keyword_hits = <<>>
           /\ last.read_from = 0
           /\ last.last_read_pos = 0
           /\ pos = 0
           /\ live = EmptyFile
           /\ \A a \in archives :
                 PathOf(a) = last.rot.archived_path => a.data = last.pre_data

C23_Witness ==
    /\ RotationDue
    /\ last.pre_pos > 0
    /\ last.pre_pos < last.pre_size
    /\ ContainsIgnoringCase(UnreadBeforePoll, <<"e">>)
    /\ last.rot.rotated
    /\ \E a \in archives : a.data = last.pre_data

(***************************************************************************)
(* C25.  When the live file has been replaced by a different file whose    *)
(* size is at least the stored offset, the next poll does not notice: it   *)
(* keeps the offset, reads the new file from that byte on and returns      *)
(* nothing of what lies before it.  (A poll that finds the new file at     *)
(* max_bytes or more rotates it instead and reads from 0.)                 *)
(***************************************************************************)
OtherFileAtPath ==
    /\ Alone
    /\ last.fault = "none"
    /\ last.pre_kind = "file"
    /\ ~last.pre_own
    /\ last.pre_pos > 0
    /\ last.pre_size >= last.pre_pos

ReadFromStoredOffset ==
    /\ ~last.moved
    /\ last.notes = <<>>
    /\ last.read_from = last.pre_pos
    /\ last.last_read_pos >= last.pre_pos
    /\ last.new_lines =
           ShownAll(Take(SplitLines(Drop(live.data, last.pre_pos)),
                         cfg.max_lines_per_poll))

C25_ReplacementNeverDetected == OtherFileAtPath => ReadFromStoredOffset

C25_ReplacementBelowLimitNotDetected ==
    OtherFileAtPath /\ last.pre_size < cfg.max_bytes => ReadFromStoredOffset

C25_Witness ==
    /\ OtherFileAtPath
    /\ last.pre_size < cfg.max_bytes
    /\ last.pre_size > last.pre_pos
    /\ last.new_lines # <<>>
    /\ live.data[1] = "E"

(***************************************************************************)
(* C26.  A read that fails after it has read some lines leaves the offset  *)
(* where the read started, yet its snapshot carries the lines read so far; *)
(* the next successful poll reads from the same offset and returns those   *)
(* lines again.                                                            *)
(***************************************************************************)
\* the poll before this one failed in the read loop or in f.tell()
ReadFailedWithLines ==
    /\ TwoPolls
    /\ last.prev.fault \in {"reading", "tell"}
    /\ last.prev.new_lines # <<>>

C26_FailedReadLinesDeliveredAgain ==
    ReadFailedWithLines /\ last.fault = "none"
        => /\ ~last.prev.raised
           /\ \E i \in 1..Len(last.prev.notes) :
                 last.prev.notes[i].tag = "read failed"
           /\ last.pre_pos = last.prev.read_from
           /\ last.prev.last_read_pos = last.prev.read_from
           /\ last.read_from = last.prev.read_from
           /\ Len(last.new_lines) >= Len(last.prev.new_lines)
           /\ SubSeq(last.new_lines, 1, Len(last.prev.new_lines))
                  = last.prev.new_lines
           /\ pos > last.pre_pos

C26_Witness ==
    /\ ReadFailedWithLines
    /\ last.fault = "none"
    /\ last.read_from = last.pre_pos
    /\ last.read_from > 0
    /\ Len(last.new_lines) = 2
    /\ pos = Len(live.data)

(***************************************************************************)
(* C27.  A rotation writes its archive under a name that no archive        *)
(* already present carries, so that every archive present before the       *)
(* rotation keeps its content or is removed by retention, never replaced   *)
(* by the new one; also for two rotations within the same second.          *)
(***************************************************************************)
C27_ArchiveNamesDistinct ==
    Polled /\ last.rot.rotated =>
        \A a \in last.pre_archives : PathOf(a) # last.rot.archived_path

(***************************************************************************)
(* C28.  After a rotation whose compression failed the archive directory   *)
(* holds at most keep_archives files of the log: the cleanup step has run  *)
(* and has counted the uncompressed archive as well.                       *)
(***************************************************************************)
C28_RetentionCoversFailedCompression ==
    CompressionFailed => Cardinality(archives) <= cfg.keep_archives

(***************************************************************************)
(* C29.  A poll consumes whole lines only: the offset it stores stands     *)
(* just after a line terminator, and every entry it returns is a line up   *)
(* to its terminator, so that the beginning of a line still being written  *)
(* stays unread until the line is complete.                                *)
(***************************************************************************)
C29_OnlyWholeLinesConsumed ==
    Returned /\ last.read_from >= 0 /\ pos > last.read_from =>
        /\ live.data[pos] = NL
        /\ BytesOf(SplitLines(SubSeq(live.data, last.read_from + 1, pos)))
               = pos - last.read_from

(***************************************************************************)
(* Vocabulary of the properties about overlapping polls.                   *)
(***************************************************************************)
IsPrefix(a, b) == Len(a) <= Len(b) /\ SubSeq(b, 1, Len(a)) = a

\* the worker has been through the readline loop and has stored its offset
HasRead(w) == workers[w].at >= 0 /\ workers[w].phase \notin HandlePhases

\* both workers came to the seek, and neither had left collect() when the
\* other entered it
Overlapped(v, w) ==
    /\ v # w
    /\ workers[v].at >= 0 /\ workers[w].at >= 0
    /\ workers[v].coll = workers[w].coll
    /\ v \notin workers[w].seen
    /\ w \notin workers[v].seen

\* both workers read the same file of the same collector
SameFile(v, w) ==
    /\ workers[v].coll = workers[w].coll
    /\ workers[v].gen = workers[w].gen

(***************************************************************************)
(* C21.  Two polls overlapping on one collector race on its offset: when   *)
(* both have sought to the same offset of the same file before either      *)
(* stored its new offset, the lines of the one that read less are returned *)
(* by the other as well (double count); and the offset stored last can be  *)
(* smaller than the one stored before it.                                  *)
(***************************************************************************)
C21_OverlappingPollsReturnSameLines ==
    \A v, w \in 1..Len(workers) :
        /\ HasRead(v) /\ HasRead(w)
        /\ Overlapped(v, w)
        /\ SameFile(v, w)
        /\ workers[v].at = workers[w].at
        => \/ IsPrefix(workers[v].lines, workers[w].lines)
           \/ IsPrefix(workers[w].lines, workers[v].lines)

\* both polls returned the first line, and the poll that ended last put the
\* offset back before the second line, which the other poll had returned
C21_Witness ==
    \E v, w \in 1..Len(workers) :
        /\ workers[v].phase = "done" /\ workers[w].phase = "done"
        /\ HasRead(v) /\ HasRead(w)
        /\ Overlapped(v, w)
        /\ SameFile(v, w)
        /\ workers[v].at = workers[w].at
        /\ workers[v].lines # <<>>
        /\ IsPrefix(workers[v].lines, workers[w].lines)
        /\ workers[v].tell < workers[w].tell
        /\ PosOf(workers[v].coll) = workers[v].tell

(***************************************************************************)
(* C24.  The lines of a snapshot that was dropped as stale at delivery are *)
(* shown by no snapshot of a later request.                                *)
(***************************************************************************)
Delivered(v) == \E i \in 1..Len(shown) : shown[i].req = v

\* the result of request w reached _on_log_result and was not shown
Dropped(w) ==
    /\ workers[w].phase \in {"emitted", "finished", "done"}
    /\ workers[w].res.kind = "result"
    /\ \A i \in 1..Len(events) : ~(events[i].w = w /\ events[i].sig = "result")
    /\ ~Delivered(w)

\* both snapshots carry a line of the same file
ShareLines(v, w) ==
    /\ workers[v].gen = workers[w].gen
    /\ workers[v].at < workers[w].tell
    /\ workers[w].at < workers[v].tell

LostAndShownLater(w, v) ==
    /\ Dropped(w)
    /\ workers[w].lines # <<>>
    /\ v > w
    /\ Delivered(v)

\* C24: no shown snapshot of a later request carries a line of a snapshot
\* that was dropped as stale
C24_StaleLinesNeverShown ==
    \A w, v \in 1..Len(workers) : LostAndShownLater(w, v) => ~ShareLines(v, w)

(***************************************************************************)
(* C30.  A worker started by refresh_logs emits result or error, one of    *)
(* them and once, then finished once, whether collect() returns or raises; *)
(* the GUI thread receives them in that order, the worker stays in the     *)
(* active set until its finished signal is handled, every worker put in    *)
(* the set is eventually removed and the set is empty once all workers     *)
(* have ended and their signals are handled.                               *)
(***************************************************************************)
SignalsOf(w) ==
    LET OfWorker(e) == e.w = w
        pending == SelectSeq(events, OfWorker)
    IN  [i \in 1..Len(pending) |-> pending[i].sig]

SignalsInOrder ==
    \A w \in 1..Len(workers) :
        IF workers[w].phase \notin {"emitted", "finished", "done"}
        THEN SignalsOf(w) = <<>> /\ w \in active
        ELSE /\ workers[w].res.kind \in {"result", "error"}
             /\ IF workers[w].phase = "emitted"
                THEN /\ SignalsOf(w) \in {<<workers[w].res.kind>>, <<>>}
                     /\ w \in active
                ELSE /\ SignalsOf(w) \in {<<workers[w].res.kind, "finished">>,
                                          <<"finished">>, <<>>}
                     /\ w \in active <=> SignalsOf(w) # <<>>

AllHandled ==
    /\ \A w \in 1..Len(workers) : workers[w].phase = "done"
    /\ \A o \in 1..Len(others) : others[o].phase = "done"
    /\ events = <<>>

C30_WorkersSignalAndLeaveActiveSet ==
    /\ [](SignalsInOrder /\ (AllHandled => active = {}))
    /\ \A w \in 1..MaxReq : (w \in active) ~> (w \notin active)

C30_Witness ==
    /\ AllHandled
    /\ active = {}
    /\ \E v, w \in 1..Len(workers) :
          workers[v].res.kind = "error" /\ workers[w].res.kind = "result"

====
